---- MODULE Spec2Model ----
(***************************************************************************)
(* Compile/run orchestration of the Zig playground: the compile worker     *)
(* (src/workers/zig-worker.ts), the run worker                             *)
(* (src/workers/runner-worker.ts) and the host page that owns them         *)
(* (src/components/ZigPlayground.tsx).                                     *)
(*                                                                         *)
(* A worker is a single-threaded event loop.  One action of the model is   *)
(* one turn of that loop: an event listener, or the resumption of an async *)
(* function after an await, run to the next suspension point together with *)
(* the promise continuations it triggers.                                  *)
(***************************************************************************)
EXTENDS Integers, Sequences, FiniteSets, TLC

-----------------------------------------------------------------------------
(* Bounds of the model *)

\* messages the environment posts to the two workers (WorkerSpec)
MaxArrivals == 3
\* uncaught-error / unhandled-rejection / messageerror events in the workers, refused
\* messages, and failed constructions of the workers
MaxFaults == 1
\* worker generations the Stop button may reach
MaxGeneration == 1
\* requests the page may have posted when Run is clicked (Spec)
MaxPosted == 1
\* length of the path strings given to normalizeEntryPath (BuilderSpec)
MaxPathLen == 4
\* length of the file lists given to hydrateAppDirectory (BuilderSpec)
MaxFiles == 3
\* invocations that build their trees one after the other (BuilderSpec)
MaxInvocations == 2
\* calls of warmZigAssets in one page context (WarmSpec)
MaxWarmCalls == 3
\* listeners that throw when warmZigAssets notifies them (WarmSpec)
MaxListenerFaults == 1
\* compile requests posted to one compile worker, one at a time (RefreshSpec)
MaxCompilations == 51
\* uncaught stack-overflow errors in that worker (RefreshSpec)
MaxRefreshFaults == 2
\* calls of the asset library in one context (AssetSpec)
MaxCalls == 6
\* discards of the cached compiler module in that context (AssetSpec)
MaxEvictions == 1

\* zig-worker.ts:30
MAX_COMPILATIONS_BEFORE_REFRESH == 50

-----------------------------------------------------------------------------
(* Values *)

\* byte contents of compiled artifacts
Wasm1 == <<0, 97, 115, 109>>
Wasm2 == <<0, 97, 115, 109, 1>>
NoWasm == <<>>
\* no exit code in the message
NoExitCode == 0 - 1

\* "nothing was thrown"
NotThrown == [thrown |-> FALSE, isError |-> FALSE, name |-> "", message |-> ""]
\* new Error-like values thrown by the platform or the guest
JsError(name, message) == [thrown |-> TRUE, isError |-> TRUE, name |-> name, message |-> message]
\* a thrown value that is not an Error instance (throw 'text')
JsNonError(text) == [thrown |-> TRUE, isError |-> FALSE, name |-> "", message |-> text]

StackRangeError == JsError("RangeError", "Maximum call stack size exceeded")
OtherRangeError == JsError("RangeError", "Invalid array length")
FirefoxInternalError == JsError("InternalError", "too much recursion")
RecursionMessageError == JsError("Error", "too much recursion")
CallStackMessageError == JsError("Error", "Maximum call stack size exceeded")
FetchError == JsError("Error", "Failed to fetch")
\* WebAssembly.RuntimeError of a guest that executes unreachable
GuestTrap == JsError("RuntimeError", "unreachable")
ThrownString == JsNonError("too much recursion")

\* errors that reach the global listeners
FaultErrors ==
    {StackRangeError, OtherRangeError, FirefoxInternalError, RecursionMessageError,
     CallStackMessageError, FetchError, ThrownString}

\* errors thrown inside the compile and run pipelines
PipelineErrors == {StackRangeError, FetchError}

\* String.prototype.includes on the message texts above
Includes(message, needle) ==
    <<message, needle>> \in
        {<<"Maximum call stack size exceeded", "call stack">>,
         <<"too much recursion", "recursion">>}

\* zig-worker.ts:51-56, 85-90, 150-155; runner-worker.ts:12-17, 29-34
isStackOverflow(error) ==
    /\ error.thrown
    /\ error.isError
    /\ \/ Includes(error.message, "recursion")
       \/ Includes(error.message, "call stack")
       \/ error.name = "RangeError"
       \/ error.name = "InternalError"

-----------------------------------------------------------------------------
(* Text and the virtual directory tree *)

\* const name = value; body: the value is computed once, where it is declared
Const(value, Body(_)) == CHOOSE result \in {Body(v) : v \in {value}} : TRUE

\* a path is a sequence of one-character strings
MAIN_ZIG == <<"m", "a", "i", "n", ".", "z", "i", "g">>
\* zig-worker.ts:21
EMIT_WASM_PATH == <<"m", "a", "i", "n", ".", "w", "a", "s", "m">>

\* String.prototype.trim
Trim(s) ==
    Const({i \in 1..Len(s) : s[i] # " "},
          LAMBDA kept : IF kept = {} THEN <<>>
                        ELSE SubSeq(s, CHOOSE i \in kept : \A j \in kept : i <= j,
                                    CHOOSE i \in kept : \A j \in kept : i >= j))

\* String.prototype.split('/'): the pieces between consecutive separators
SplitSlash(s) ==
    Const(<<0>> \o SelectSeq([i \in 1..Len(s) |-> i], LAMBDA i : s[i] = "/") \o <<Len(s) + 1>>,
          LAMBDA cuts : [k \in 1..(Len(cuts) - 1) |-> SubSeq(s, cuts[k] + 1, cuts[k + 1] - 1)])

\* Array.prototype.map(trim).filter(segment => segment.length > 0 && segment is not dropped)
KeepSegments(parts, dropped) ==
    SelectSeq([i \in 1..Len(parts) |-> Trim(parts[i])],
              LAMBDA segment : Len(segment) > 0 /\ segment \notin dropped)

\* zig-worker.ts:385-390, runner-worker.ts:269-274
toSegments(path) ==
    Const(SplitSlash(path), LAMBDA parts : KeepSegments(parts, {<<".">>}))

\* nodes of the tree: new File(data, {readonly}) and new Directory(contents)
FileNode(data, readonly) ==
    [kind |-> "file", data |-> data, readonly |-> readonly, contents |-> <<>>]
DirectoryNode(contents) ==
    [kind |-> "directory", data |-> <<>>, readonly |-> FALSE, contents |-> contents]
NullNode == [kind |-> "null", data |-> <<>>, readonly |-> FALSE, contents |-> <<>>]

\* Map.prototype.get
MapGet(contents, name) == IF name \in DOMAIN contents THEN contents[name] ELSE NullNode

\* zig-worker.ts:348-367
RECURSIVE getFileAtPathFrom(_, _, _)
getFileAtPathFrom(current, segments, index) ==
    IF index > Len(segments) THEN NullNode
    ELSE LET entry == MapGet(current.contents, segments[index])
             isLast == index = Len(segments)
         IN  IF entry.kind = "null" THEN NullNode
             ELSE IF isLast THEN (IF entry.kind = "file" THEN entry ELSE NullNode)
             ELSE IF entry.kind # "directory" THEN NullNode
             ELSE getFileAtPathFrom(entry, segments, index + 1)

getFileAtPath(root, relativePath) ==
    Const(toSegments(relativePath), LAMBDA segments : getFileAtPathFrom(root, segments, 1))

\* Uint8Array.prototype.slice: a copy, element by element
Slice(data) == [i \in 1..Len(data) |-> data[i]]

\* variant of extractWasmArtifact that hands out a buffer whether or not a file is there
extractWithoutNullCheck(appDirectory) ==
    [isNull |-> FALSE, buffer |-> Slice(getFileAtPath(appDirectory, EMIT_WASM_PATH).data)]

\* zig-worker.ts:339-346; null is [isNull |-> TRUE]
extractWasmArtifact(appDirectory) ==
    Const(getFileAtPath(appDirectory, EMIT_WASM_PATH),
          LAMBDA file : IF file.kind = "null" THEN [isNull |-> TRUE, buffer |-> NoWasm]
                        ELSE [isNull |-> FALSE, buffer |-> Slice(file.data)])

\* the project tree as the compiler leaves it when it stops
SourceOnlyTree == DirectoryNode((MAIN_ZIG :> FileNode(<<112>>, FALSE)))
EmittedTree(bytes) ==
    DirectoryNode((MAIN_ZIG :> FileNode(<<112>>, FALSE)) @@ (EMIT_WASM_PATH :> FileNode(bytes, FALSE)))
DirectoryAtEmitPathTree ==
    DirectoryNode((MAIN_ZIG :> FileNode(<<112>>, FALSE))
                  @@ (EMIT_WASM_PATH :> DirectoryNode((MAIN_ZIG :> FileNode(<<>>, FALSE)))))
AppTrees == {SourceOnlyTree, EmittedTree(Wasm1), EmittedTree(Wasm2), DirectoryAtEmitPathTree}

-----------------------------------------------------------------------------
(* The virtual filesystem builder *)

\* zig-worker.ts:22, runner-worker.ts:92
DEFAULT_ENTRY_FILENAME == MAIN_ZIG
\* zig-worker.ts:23, runner-worker.ts:93
LEGACY_APP_PREFIX == <<"/", "a", "p", "p">>

\* String.prototype.replace(/\\/g, '/')
ReplaceBackslashes(s) == [i \in 1..Len(s) |-> IF s[i] = "\\" THEN "/" ELSE s[i]]

\* String.prototype.startsWith
StartsWith(s, prefix) == Len(s) >= Len(prefix) /\ SubSeq(s, 1, Len(prefix)) = prefix

\* String.prototype.slice(start)
SliceFrom(s, start) == SubSeq(s, start + 1, Len(s))

\* String.prototype.replace(/^\/+/, '')
StripLeadingSlashes(s) ==
    Const({i \in 1..Len(s) : s[i] # "/"},
          LAMBDA kept : IF kept = {} THEN <<>>
                        ELSE SubSeq(s, CHOOSE i \in kept : \A j \in kept : i <= j, Len(s)))

\* Array.prototype.join('/')
RECURSIVE JoinSlash(_)
JoinSlash(segments) ==
    IF Len(segments) = 0 THEN <<>>
    ELSE IF Len(segments) = 1 THEN segments[1]
    ELSE segments[1] \o <<"/">> \o JoinSlash(Tail(segments))

\* variant of normalizeEntryPath that keeps the '..' segments
normalizeKeepingDotDot(path) ==
    LET trimmed == ReplaceBackslashes(Trim(path))
        withoutLegacyPrefix ==
            IF StartsWith(trimmed, LEGACY_APP_PREFIX \o <<"/">>)
            THEN SliceFrom(trimmed, Len(LEGACY_APP_PREFIX) + 1)
            ELSE IF StartsWith(trimmed, LEGACY_APP_PREFIX)
            THEN SliceFrom(trimmed, Len(LEGACY_APP_PREFIX))
            ELSE trimmed
        normalized == JoinSlash(toSegments(StripLeadingSlashes(withoutLegacyPrefix)))
    IN  IF Len(normalized) > 0 THEN normalized ELSE DEFAULT_ENTRY_FILENAME

\* zig-worker.ts:369-383, runner-worker.ts:253-267
normalizeEntryPath(path) ==
    LET trimmed == ReplaceBackslashes(Trim(path))
        withoutLegacyPrefix ==
            IF StartsWith(trimmed, LEGACY_APP_PREFIX \o <<"/">>)
            THEN SliceFrom(trimmed, Len(LEGACY_APP_PREFIX) + 1)
            ELSE IF StartsWith(trimmed, LEGACY_APP_PREFIX)
            THEN SliceFrom(trimmed, Len(LEGACY_APP_PREFIX))
            ELSE trimmed
        cleaned == StripLeadingSlashes(withoutLegacyPrefix)
        segments == KeepSegments(SplitSlash(cleaned), {<<".">>, <<".", ".">>})
        normalized == JoinSlash(segments)
    IN  IF Len(normalized) > 0 THEN normalized ELSE DEFAULT_ENTRY_FILENAME

\* runner-worker.ts:253-267: the run worker's copy of normalizeEntryPath
runnerNormalizeEntryPath(path) ==
    LET trimmed == ReplaceBackslashes(Trim(path))
        withoutLegacyPrefix ==
            IF StartsWith(trimmed, LEGACY_APP_PREFIX \o <<"/">>)
            THEN SliceFrom(trimmed, Len(LEGACY_APP_PREFIX) + 1)
            ELSE IF StartsWith(trimmed, LEGACY_APP_PREFIX)
            THEN SliceFrom(trimmed, Len(LEGACY_APP_PREFIX))
            ELSE trimmed
        cleaned == StripLeadingSlashes(withoutLegacyPrefix)
        segments == KeepSegments(SplitSlash(cleaned), {<<".">>, <<".", ".">>})
        normalized == JoinSlash(segments)
    IN  IF Len(normalized) > 0 THEN normalized ELSE DEFAULT_ENTRY_FILENAME

\* variant of normalizeWorkerPath that does not trim the segments
normalizeWorkerPathUntrimmed(path) ==
    LET trimmed == ReplaceBackslashes(Trim(path))
        withoutLegacyPrefix ==
            IF StartsWith(trimmed, LEGACY_APP_PREFIX \o <<"/">>)
            THEN SliceFrom(trimmed, Len(LEGACY_APP_PREFIX) + 1)
            ELSE IF StartsWith(trimmed, LEGACY_APP_PREFIX)
            THEN SliceFrom(trimmed, Len(LEGACY_APP_PREFIX))
            ELSE trimmed
        cleaned == StripLeadingSlashes(withoutLegacyPrefix)
        segments == SelectSeq(SplitSlash(cleaned),
                              LAMBDA segment : Len(Trim(segment)) > 0
                                               /\ segment \notin {<<".">>, <<".", ".">>})
        normalized == JoinSlash(segments)
    IN  IF Len(normalized) > 0 THEN normalized ELSE DEFAULT_ENTRY_FILENAME

\* ZigPlayground.tsx:218-232: the page's copy of the normalizer
normalizeWorkerPath(path) ==
    LET trimmed == ReplaceBackslashes(Trim(path))
        withoutLegacyPrefix ==
            IF StartsWith(trimmed, LEGACY_APP_PREFIX \o <<"/">>)
            THEN SliceFrom(trimmed, Len(LEGACY_APP_PREFIX) + 1)
            ELSE IF StartsWith(trimmed, LEGACY_APP_PREFIX)
            THEN SliceFrom(trimmed, Len(LEGACY_APP_PREFIX))
            ELSE trimmed
        cleaned == StripLeadingSlashes(withoutLegacyPrefix)
        segments == KeepSegments(SplitSlash(cleaned), {<<".">>, <<".", ".">>})
        normalized == JoinSlash(segments)
    IN  IF Len(normalized) > 0 THEN normalized ELSE DEFAULT_ENTRY_FILENAME

\* the bytes TextEncoder.prototype.encode gives for one character
Utf8Char(c) ==
    IF c = "x" THEN <<120>>
    ELSE IF c = "a" THEN <<97>>
    ELSE IF c = "b" THEN <<98>>
    ELSE IF c = "é" THEN <<195, 169>>
    ELSE <<63>>

\* variant of encode that writes one byte for every UTF-16 code unit
RECURSIVE encodeCodeUnits(_)
encodeCodeUnits(text) ==
    IF Len(text) = 0 THEN <<>>
    ELSE (IF Head(text) = "é" THEN <<233>> ELSE Utf8Char(Head(text)))
             \o encodeCodeUnits(Tail(text))

\* textEncoder.encode, zig-worker.ts:24, 317; runner-worker.ts:94, 231
RECURSIVE encode(_)
encode(text) == IF Len(text) = 0 THEN <<>> ELSE Utf8Char(Head(text)) \o encode(Tail(text))

\* the objects created so far, by address; a Directory's contents maps names to addresses
NoObjects == <<>>
\* new Directory(new Map()) / new File(data, {readonly}): the object takes the next address
New(heap, node) == [heap |-> Append(heap, node), addr |-> Len(heap) + 1]

\* Map.prototype.set and Map.prototype.delete on the contents of the directory at addr
MapSet(heap, addr, name, value) ==
    [heap EXCEPT ![addr].contents =
        [n \in DOMAIN @ \cup {name} |-> IF n = name THEN value ELSE @[n]]]
MapDelete(heap, addr, name) ==
    [heap EXCEPT ![addr].contents = [n \in DOMAIN @ \ {name} |-> @[n]]]

\* variant of ensureDirectory that makes a new directory for every segment
RECURSIVE ensureDirectoryAfresh(_, _, _, _)
ensureDirectoryAfresh(heap, current, segments, index) ==
    IF index > Len(segments) THEN [heap |-> heap, addr |-> current]
    ELSE LET next == New(heap, DirectoryNode(<<>>))
         IN  ensureDirectoryAfresh(MapSet(next.heap, current, segments[index], next.addr),
                                   next.addr, segments, index + 1)

\* zig-worker.ts:320-337, runner-worker.ts:234-251
RECURSIVE ensureDirectoryFrom(_, _, _, _)
ensureDirectoryFrom(heap, current, segments, index) ==
    IF index > Len(segments) THEN [heap |-> heap, addr |-> current]
    ELSE LET segment == segments[index]
             contents == heap[current].contents
             present == segment \in DOMAIN contents
         IN  IF present /\ heap[contents[segment]].kind = "directory"
             THEN ensureDirectoryFrom(heap, contents[segment], segments, index + 1)
             ELSE LET removed == IF present THEN MapDelete(heap, current, segment) ELSE heap
                      next == New(removed, DirectoryNode(<<>>))
                  IN  ensureDirectoryFrom(MapSet(next.heap, current, segment, next.addr),
                                          next.addr, segments, index + 1)

ensureDirectory(heap, root, segments) == ensureDirectoryFrom(heap, root, segments, 1)

\* variant of writeFile that keeps a file that is already there
writeFileOnce(heap, root, relativePath, contents, readOnly) ==
    LET segments == toSegments(relativePath)
    IN  IF Len(segments) = 0 THEN heap
        ELSE LET filename == segments[Len(segments)]
                 parent == ensureDirectory(heap, root, SubSeq(segments, 1, Len(segments) - 1))
                 file == New(parent.heap, FileNode(encode(contents), readOnly))
             IN  IF filename \in DOMAIN parent.heap[parent.addr].contents
                 THEN parent.heap
                 ELSE MapSet(file.heap, parent.addr, filename, file.addr)

\* zig-worker.ts:310-318, runner-worker.ts:224-232
writeFile(heap, root, relativePath, contents, readOnly) ==
    LET segments == toSegments(relativePath)
    IN  IF Len(segments) = 0 THEN heap
        ELSE LET filename == segments[Len(segments)]
                 parent == ensureDirectory(heap, root, SubSeq(segments, 1, Len(segments) - 1))
                 file == New(parent.heap, FileNode(encode(contents), readOnly))
             IN  MapSet(file.heap, parent.addr, filename, file.addr)

\* zig-worker.ts:299-305: the loop of hydrateAppDirectory from the entry at index on
RECURSIVE hydrateFrom(_, _, _, _)
hydrateFrom(heap, root, files, index) ==
    IF index > Len(files) THEN heap
    ELSE LET file == files[index]
             relativePath == normalizeEntryPath(file.path)
         IN  IF Len(relativePath) = 0
             THEN hydrateFrom(heap, root, files, index + 1)
             ELSE hydrateFrom(writeFile(heap, root, relativePath, file.contents, file.readOnly),
                              root, files, index + 1)

\* variant of hydrateAppDirectory that fills the directory of the previous call
hydrateIntoFirstDirectory(heap, files) ==
    LET directory == IF Len(heap) > 0 THEN [heap |-> heap, addr |-> 1]
                     ELSE New(heap, DirectoryNode(<<>>))
    IN  [heap |-> hydrateFrom(directory.heap, directory.addr, files, 1), addr |-> directory.addr]

\* zig-worker.ts:296-308, runner-worker.ts:212-222
hydrateAppDirectory(heap, files) ==
    LET directory == New(heap, DirectoryNode(<<>>))
    IN  [heap |-> hydrateFrom(directory.heap, directory.addr, files, 1), addr |-> directory.addr]

\* part_005:10: a TreeNode is a Map of names to TreeNodes and byte arrays
TreeMap(entries) == [kind |-> "map", data |-> <<>>, entries |-> entries]
TreeBytes(data) == [kind |-> "bytes", data |-> data, entries |-> <<>>]

\* variant of the file of the standard-library mount that is left writable
stdlibFileWritable(value) == FileNode(value.data, FALSE)

\* part_005:116: new File(value, { readonly: true })
stdlibFile(value) == FileNode(value.data, TRUE)

\* part_005:111-121: convertTreeToDirectory; convertEntries is its loop over the entries
\* of the node that are not yet converted
RECURSIVE convertTreeToDirectory(_, _)
RECURSIVE convertEntries(_, _, _, _)
convertEntries(heap, node, names, entries) ==
    IF names = {} THEN [heap |-> heap, entries |-> entries]
    ELSE LET name == CHOOSE n \in names : TRUE
             value == node.entries[name]
             made == IF value.kind = "map" THEN convertTreeToDirectory(heap, value)
                     ELSE New(heap, stdlibFile(value))
         IN  convertEntries(made.heap, node, names \ {name},
                            [n \in DOMAIN entries \cup {name} |->
                                 IF n = name THEN made.addr ELSE entries[n]])

convertTreeToDirectory(heap, node) ==
    LET converted == convertEntries(heap, node, DOMAIN node.entries, <<>>)
    IN  New(converted.heap, DirectoryNode(converted.entries))

\* part_005:20-23 once loadStdlibTree has its tree
getZigStdlibDirectory(heap, cachedStdlibTree) == convertTreeToDirectory(heap, cachedStdlibTree)

\* the tree under an object, as nested values
RECURSIVE TreeAt(_, _)
TreeAt(heap, addr) ==
    IF heap[addr].kind = "file" THEN FileNode(heap[addr].data, heap[addr].readonly)
    ELSE DirectoryNode([name \in DOMAIN heap[addr].contents |->
                            TreeAt(heap, heap[addr].contents[name])])

\* the objects of the tree under an object
RECURSIVE NodesAt(_, _)
NodesAt(heap, addr) ==
    {addr} \cup UNION {NodesAt(heap, heap[addr].contents[name]) :
                          name \in DOMAIN heap[addr].contents}

-----------------------------------------------------------------------------
(* The asset library of one context *)

WasmAssetKinds == {"zig", "zls"}
Assets == WasmAssetKinds \cup {"stdlib"}

\* fetch-assets.ts:16-17: a promise slot that holds nothing
NoPromise == [state |-> "none", fetch |-> 0]

\* part_007:13, 71-73: the assets in the order runWarmSequence warms them
WarmOrder == <<"zig", "zls", "stdlib">>

\* the functions callers pass as onUpdate
Listeners == {"l1", "l2"}

\* part_007:17-21; error: the asset of the message, '' while the field is absent
FreshSnapshot == [zig |-> "idle", zls |-> "idle", stdlib |-> "idle", error |-> ""]

\* part_007:17-24 at module load; warmPromise: the warm sequence whose promise the slot
\* holds, 0 for null; running: the calls of runWarmSequence that have not settled, each
\* with the asset whose action it awaits; started: the calls of runWarmSequence so far;
\* calls: the calls of warmZigAssets, each with its listener, the state of its promise
\* and the sequence it awaits; seen: the snapshot each listener was last given
FreshRegistry ==
    [snapshot |-> FreshSnapshot,
     warmPromise |-> 0,
     listeners |-> {},
     running |-> <<>>,
     started |-> 0,
     calls |-> <<>>,
     seen |-> [l \in Listeners |-> FreshSnapshot]]

\* fetch-assets.ts:16-17, part_005:17-18, zig-worker.ts:26 at module load; issued: the
\* calls of fetch() per asset; inFlight: the fetches not yet settled; succeeded: the
\* assets of which a fetch has resolved; hydrations: the calls of hydrateStdlibTree;
\* calls, evictions: the calls of the exported functions and the discards of the cached
\* module so far; last: the latest call
FreshAssets ==
    [wasmAssetPromises |-> [kind \in WasmAssetKinds |-> NoPromise],
     stdlibArchivePromise |-> NoPromise,
     stdlibTreePromise |-> [state |-> "none", awaits |-> ""],
     cachedStdlibTree |-> FALSE,
     zigModulePromise |-> "null",
     issued |-> [asset \in Assets |-> 0],
     inFlight |-> {},
     succeeded |-> [asset \in Assets |-> FALSE],
     hydrations |-> 0,
     calls |-> 0,
     evictions |-> 0,
     last |-> [op |-> "", asset |-> ""],
     registry |-> FreshRegistry]

\* fetch-assets.ts:33, 54: fetch(requestUrl, ...)
fetch(a, asset) ==
    [a EXCEPT !.issued[asset] = @ + 1,
              !.inFlight = @ \cup {[asset |-> asset, fetch |-> a.issued[asset] + 1]}]

\* fetch-assets.ts:19-27 with the check of the slot left out
fetchWasmAssetAfresh(a, kind) ==
    LET loading == fetch(a, kind)
    IN  [loading EXCEPT !.wasmAssetPromises[kind] =
                            [state |-> "pending", fetch |-> loading.issued[kind]]]

\* fetch-assets.ts:19-27, with loadWasmAsset (29-33) up to its first await
fetchWasmAsset(a, kind) ==
    IF a.wasmAssetPromises[kind].state = "none"
    THEN LET loading == fetch(a, kind)
         IN  [loading EXCEPT !.wasmAssetPromises[kind] =
                                 [state |-> "pending", fetch |-> loading.issued[kind]]]
    ELSE a

\* fetch-assets.ts:41-49, with loadStdlibArchive (51-54) up to its first await
fetchZigStdlibArchive(a) ==
    IF a.stdlibArchivePromise.state = "none"
    THEN LET loading == fetch(a, "stdlib")
         IN  [loading EXCEPT !.stdlibArchivePromise =
                                 [state |-> "pending", fetch |-> loading.issued["stdlib"]]]
    ELSE a

\* part_005:46-47: hydrateStdlibTree up to its first await
hydrateStdlibTree(a) ==
    LET fetching == fetchZigStdlibArchive(a)
    IN  [fetching EXCEPT !.hydrations = @ + 1,
                         !.stdlibTreePromise =
                             [state |-> "pending",
                              awaits |-> IF fetching.stdlibArchivePromise.state = "fulfilled"
                                         THEN "gunzip" ELSE "archive"]]

\* part_005:25-44
loadStdlibTree(a) ==
    IF a.cachedStdlibTree THEN a
    ELSE IF a.stdlibTreePromise.state = "none" THEN hydrateStdlibTree(a)
    ELSE a

\* zig-worker.ts:253-263
loadZigModule(a) ==
    IF a.zigModulePromise = "null"
    THEN [fetchWasmAsset(a, "zig") EXCEPT !.zigModulePromise = "promise"]
    ELSE a

\* fetch-assets.ts:33-38, 21-24, zig-worker.ts:257-260: the fetch of a binary settles;
\* a rejection runs the catch of fetchWasmAsset and that of loadZigModule
wasmFetchSettles(a, kind, f, ok) ==
    LET settled == [a EXCEPT !.inFlight = @ \ {[asset |-> kind, fetch |-> f]}]
    IN  IF ok
        THEN [settled EXCEPT !.succeeded[kind] = TRUE,
                             !.wasmAssetPromises[kind] =
                                 IF @.fetch = f THEN [@ EXCEPT !.state = "fulfilled"] ELSE @]
        ELSE [settled EXCEPT !.wasmAssetPromises[kind] = NoPromise,
                             !.zigModulePromise = IF kind = "zig" THEN "null" ELSE @]

\* fetch-assets.ts:54-61, 43-46, part_005:36-40, 47: the fetch of the archive settles;
\* a rejection runs the catch of fetchZigStdlibArchive and that of loadStdlibTree
archiveFetchSettles(a, f, ok) ==
    LET settled == [a EXCEPT !.inFlight = @ \ {[asset |-> "stdlib", fetch |-> f]}]
        awaited == a.stdlibTreePromise.state = "pending"
                       /\ a.stdlibTreePromise.awaits = "archive"
    IN  IF ok
        THEN [settled EXCEPT !.succeeded["stdlib"] = TRUE,
                             !.stdlibArchivePromise =
                                 IF @.fetch = f THEN [@ EXCEPT !.state = "fulfilled"] ELSE @,
                             !.stdlibTreePromise =
                                 IF awaited THEN [@ EXCEPT !.awaits = "gunzip"] ELSE @]
        ELSE [settled EXCEPT !.stdlibArchivePromise = NoPromise,
                             !.stdlibTreePromise =
                                 IF awaited THEN [state |-> "none", awaits |-> ""] ELSE @,
                             !.cachedStdlibTree = IF awaited THEN FALSE ELSE @]

\* part_005:48-90, 32-40: gunzip and untar of the archive end
hydrationSettles(a, ok) ==
    IF ok
    THEN [a EXCEPT !.stdlibTreePromise = [state |-> "fulfilled", awaits |-> ""],
                   !.cachedStdlibTree = TRUE]
    ELSE [a EXCEPT !.stdlibTreePromise = [state |-> "none", awaits |-> ""],
                   !.cachedStdlibTree = FALSE]

\* the call is counted and remembered
Called(a, op, asset) == [a EXCEPT !.calls = @ + 1, !.last = [op |-> op, asset |-> asset]]

-----------------------------------------------------------------------------
(* The asset warm-up registry of the page *)

\* part_007:64-66
areAllAssetsReady(r) ==
    r.snapshot.zig = "ready" /\ r.snapshot.zls = "ready" /\ r.snapshot.stdlib = "ready"

\* part_007:125-127
hasErroredAsset(r) ==
    r.snapshot.zig = "error" \/ r.snapshot.zls = "error" \/ r.snapshot.stdlib = "error"

\* part_007:129-141: every registered listener is given the snapshot; what a listener
\* throws is caught
emitSnapshot(r) ==
    IF r.listeners = {} THEN r
    ELSE [r EXCEPT !.seen = [l \in Listeners |->
                                 IF l \in r.listeners THEN r.snapshot ELSE @[l]]]

\* part_007:97-103
setAssetStatus(r, key, status) ==
    IF r.snapshot[key] = status THEN r
    ELSE emitSnapshot([r EXCEPT !.snapshot[key] = status])

\* part_007:117-123
clearSnapshotError(r) ==
    IF r.snapshot.error # "" THEN emitSnapshot([r EXCEPT !.snapshot.error = ""]) ELSE r

\* part_007:105-115
setSnapshotError(r, message) ==
    IF message = "" THEN clearSnapshotError(r)
    ELSE IF r.snapshot.error = message THEN r
    ELSE emitSnapshot([r EXCEPT !.snapshot.error = message])

\* part_007:143-152: the message names the asset
formatAssetError(key) == key

\* part_007:71-73: the action warmAsset is given for the asset
warmAction(a, key) ==
    IF key = "stdlib" THEN loadStdlibTree(a) ELSE fetchWasmAsset(a, key)

\* the promise the action returned is fulfilled already
actionFulfilled(a, key) ==
    IF key = "stdlib" THEN a.cachedStdlibTree
    ELSE a.wasmAssetPromises[key].state = "fulfilled"

\* part_007:50-52, 55-61: the promise of a warm sequence settles; its finally empties
\* the slot, and every call that awaited it removes its listener and settles
sequenceSettles(a, id, ok) ==
    LET r == a.registry
        awaiting == {i \in 1..Len(r.calls) :
                         r.calls[i].state = "pending" /\ r.calls[i].awaits = id}
    IN  [a EXCEPT !.registry =
            [r EXCEPT !.running = SelectSeq(@, LAMBDA s : s.id # id),
                      !.warmPromise = 0,
                      !.listeners = @ \ {r.calls[i].listener : i \in awaiting},
                      !.calls = [i \in 1..Len(r.calls) |->
                                    IF i \in awaiting
                                    THEN [r.calls[i] EXCEPT
                                              !.state = IF ok THEN "fulfilled" ELSE "rejected"]
                                    ELSE r.calls[i]]]]

\* part_007:85-88: the action of warmAsset resolved
assetWarmed(r, key) ==
    LET ready == setAssetStatus(r, key, "ready")
    IN  IF ~hasErroredAsset(ready) THEN clearSnapshotError(ready) ELSE ready

\* part_007:89-93: the action of warmAsset rejected
assetFailed(r, key) ==
    setSnapshotError(setAssetStatus(r, key, "error"), formatAssetError(key))

\* part_007:71-95: runWarmSequence takes up the assets that remain, in order, until a
\* warmAsset awaits an action that has not settled, or until none remains
RECURSIVE warmAssets(_, _, _)
warmAssets(a, id, keys) ==
    IF keys = <<>> THEN sequenceSettles(a, id, TRUE)
    ELSE LET key == Head(keys)
             warming == [a EXCEPT !.registry = setAssetStatus(@, key, "warming")]
             called == warmAction(warming, key)
         IN  IF a.registry.snapshot[key] = "ready" THEN warmAssets(a, id, Tail(keys))
             ELSE IF actionFulfilled(called, key)
             THEN warmAssets([called EXCEPT !.registry = assetWarmed(@, key)], id, Tail(keys))
             ELSE [called EXCEPT !.registry.running =
                                     SelectSeq(@, LAMBDA s : s.id # id)
                                         \o <<[id |-> id, key |-> key]>>]

\* the assets runWarmSequence takes up after the asset
KeysAfter(key) ==
    SubSeq(WarmOrder, (CHOOSE i \in 1..Len(WarmOrder) : WarmOrder[i] = key) + 1, Len(WarmOrder))

\* part_007:83-95, 71-74: the action a warm sequence awaits settles
warmAssetResumes(a, id, key, ok) ==
    IF ok THEN warmAssets([a EXCEPT !.registry = assetWarmed(@, key)], id, KeysAfter(key))
    ELSE sequenceSettles([a EXCEPT !.registry = assetFailed(@, key)], id, FALSE)

\* every warm sequence that awaits the action of the asset resumes
RECURSIVE actionSettles(_, _, _)
actionSettles(a, key, ok) ==
    LET waiting == SelectSeq(a.registry.running, LAMBDA s : s.key = key)
    IN  IF waiting = <<>> THEN a
        ELSE actionSettles(warmAssetResumes(a, waiting[1].id, key, ok), key, ok)

\* a call of warmZigAssets, its listener and the state of its promise
WarmCall(listener, state, awaits) ==
    [listener |-> listener, state |-> state, awaits |-> awaits]

\* part_007:31-62, up to the await of warmPromise; throws: the listener throws when it
\* is given the cached snapshot (38)
warmZigAssets(a, onUpdate, throws) ==
    LET r == a.registry
        ready == areAllAssetsReady(r)
        registered == IF onUpdate # "none" /\ ~ready
                      THEN [r EXCEPT !.listeners = @ \cup {onUpdate}] ELSE r
        notified == IF onUpdate # "none"
                    THEN [registered EXCEPT !.seen[onUpdate] = registered.snapshot]
                    ELSE registered
        id == r.started + 1
    IN  IF onUpdate # "none" /\ throws
        THEN [a EXCEPT !.registry =
                 [registered EXCEPT !.calls = Append(@, WarmCall(onUpdate, "rejected", 0))]]
        ELSE IF ready
        THEN [a EXCEPT !.registry =
                 [notified EXCEPT !.listeners = @ \ {onUpdate},
                                  !.calls = Append(@, WarmCall(onUpdate, "fulfilled", 0))]]
        ELSE IF r.warmPromise = 0
        THEN warmAssets([a EXCEPT !.registry =
                            [clearSnapshotError(notified) EXCEPT
                                 !.started = id,
                                 !.warmPromise = id,
                                 !.calls = Append(@, WarmCall(onUpdate, "pending", id))]],
                        id, WarmOrder)
        ELSE [a EXCEPT !.registry =
                 [notified EXCEPT
                      !.calls = Append(@, WarmCall(onUpdate, "pending", r.warmPromise))]]

-----------------------------------------------------------------------------
(* Messages *)

\* what BufferingConsole.read() returns for stdout and stderr
CapturedStdio == {<<"", "">>, <<"hello", "main.zig:1:1: error">>}

\* every message a worker posts, in one shape
Message(type, message, stdout, stderr, wasm, exitCode) ==
    [type |-> type, message |-> message, stdout |-> stdout, stderr |-> stderr,
     wasm |-> wasm, exitCode |-> exitCode]

NoMessage == Message("", "", "", "", NoWasm, NoExitCode)
\* the error event the page's Worker object receives for an error the worker's own
\* listener did not cancel with preventDefault
ErrorEvent == Message("error", "", "", "", NoWasm, NoExitCode)

\* zig-worker.ts:227-235
createCompileErrorResponse(message, stdout, stderr) ==
    Message("compile-error", message, stdout, stderr, NoWasm, NoExitCode)

\* zig-worker.ts:79, 102, 169
FatalErrorMessage == Message("fatal-error", "stack-overflow", "", "", NoWasm, NoExitCode)

\* runner-worker.ts:308-315
RunErrorResponse(message) == Message("run-error", message, "", "", NoWasm, NoExitCode)

\* zig-worker.ts:222, runner-worker.ts:171: error instanceof Error ?
\* `${error.message}\n${error.stack}` : String(error)
CaughtMessage(error) ==
    IF error.isError THEN error.message \o "\n" \o "<stack>" ELSE error.message

-----------------------------------------------------------------------------
(* State *)

VARIABLES
    zig,            \* the compile worker's globals, its in-flight calls and what it posted
    zigInbox,       \* messages posted to the compile worker, not yet delivered
    runner,         \* the run worker's globals, its in-flight calls and what it posted
    runnerInbox,    \* messages posted to the run worker, not yet delivered
    nextId,         \* identity of the next request object
    faults,         \* fault events and refused messages so far
    driven,         \* the workers that take turns: "zig", "runner" or "both"
    host,           \* the page: its React state, its refs, the generation its workers belong to
    zigOutbox,      \* events of the compile worker the page has not handled yet
    runnerOutbox,   \* events of the run worker the page has not handled yet
    turn,           \* the turn just taken, with the inputs the environment gave it
    fs,             \* the objects of the virtual directory trees, and the call that builds them
    assets          \* the promise slots of the asset library in one context, and its fetches

vars ==
    <<zig, zigInbox, runner, runnerInbox, nextId, faults, driven, host, zigOutbox,
      runnerOutbox, turn, fs, assets>>

\* the two workers share no state, so a worker can be driven alone; under the page a
\* worker takes turns while it has not been terminated
Drives(worker) ==
    \/ driven = worker
    \/ driven = "both" /\ host.workersAlive
    \/ driven = "refresh" /\ worker = "zig"

\* the fault events a behaviour may have
FaultBudget == IF driven = "refresh" THEN MaxRefreshFaults ELSE MaxFaults

\* what a worker posts reaches the page that owns it, in order
ToHost(outbox, posted) == IF driven = "both" THEN outbox \o posted ELSE outbox

\* no call of the filesystem builder is followed
NoJob ==
    [job |-> "none", path |-> <<>>, normalized |-> <<>>, done |-> FALSE, files |-> <<>>,
     heap |-> NoObjects, invocations |-> <<>>, wrote |-> FALSE,
     cachedStdlibTree |-> TreeMap(<<>>), changed |-> FALSE, written |-> 0,
     sent |-> FALSE, compilerPath |-> <<>>, runnerPath |-> <<>>]

\* zig-worker.ts:26-29 at module load; inFlight: the handleCompile calls that have not
\* returned; posted: what the current turn gave to ctx.postMessage, in order; started,
\* accepted: the requests that entered handleCompile and compilationQueue, in order;
\* served: the calls of loadZigModule that returned the promise zigModulePromise holds,
\* or held last
FreshZigWorker ==
    [zigModulePromise |-> "null", isCompiling |-> FALSE, compilationQueue |-> <<>>,
     compilationCount |-> 0, inFlight |-> {}, posted |-> <<>>, started |-> <<>>,
     accepted |-> <<>>, served |-> 0]

\* runner-worker.ts:89-90 at module load
FreshRunnerWorker ==
    [isRunning |-> FALSE, runQueue |-> <<>>, inFlight |-> {}, posted |-> <<>>,
     started |-> <<>>, accepted |-> <<>>]

\* PlaygroundFilePayload, part_006:1
FilePayload(path, contents, readOnly) ==
    [path |-> path, contents |-> contents, readOnly |-> readOnly]

\* event.data of a message event; filesHaveNull: files has an element that is null;
\* files: the elements of files otherwise
Payload(isObject, type, filesIsArray, entryPathIsString, wasmIsArrayBuffer, wasm) ==
    [isObject |-> isObject, type |-> type, filesIsArray |-> filesIsArray,
     filesHaveNull |-> FALSE, files |-> <<>>, entryPathIsString |-> entryPathIsString,
     wasmIsArrayBuffer |-> wasmIsArrayBuffer, wasm |-> wasm]

\* ZigCompileRequest, part_006:3-8
CompileRequest == Payload(TRUE, "compile", TRUE, TRUE, FALSE, NoWasm)
\* RunnerRequest, part_006:33-38
RunRequest(wasm) == Payload(TRUE, "run", FALSE, FALSE, TRUE, wasm)

\* payloads the environment may post
EnvPayloads ==
    {CompileRequest,
     [CompileRequest EXCEPT !.filesHaveNull = TRUE],
     [RunRequest(Wasm2) EXCEPT !.filesIsArray = TRUE, !.filesHaveNull = TRUE],
     Payload(TRUE, "compile", TRUE, FALSE, FALSE, NoWasm),
     Payload(TRUE, "compile", FALSE, TRUE, FALSE, NoWasm),
     Payload(TRUE, "other", TRUE, TRUE, TRUE, Wasm1),
     RunRequest(Wasm1),
     Payload(TRUE, "run", FALSE, FALSE, FALSE, Wasm1),
     Payload(FALSE, "", FALSE, FALSE, FALSE, NoWasm)}

WithId(payload, id) == [id |-> id, data |-> payload]
NoRequest == WithId(Payload(FALSE, "", FALSE, FALSE, FALSE, NoWasm), 0)
\* the request of an in-flight call, by identity alone
Resumed(c) == WithId(Payload(TRUE, "", FALSE, FALSE, FALSE, NoWasm), c.id)

\* the inputs of a turn
Turn(handler, request, error, outcome) ==
    [handler |-> handler, request |-> request, error |-> error, outcome |-> outcome,
     message |-> NoMessage]

\* what the environment decides when a pipeline resumes
Outcome(kind, error, exitCode, tree, stdio) ==
    [kind |-> kind, error |-> error, exitCode |-> exitCode, tree |-> tree, stdio |-> stdio]
NoOutcome == Outcome("none", NotThrown, NoExitCode, NullNode, <<"", "">>)
Suspends == Outcome("suspends", NotThrown, NoExitCode, NullNode, <<"", "">>)
Throws(kind, error, stdio) == Outcome(kind, error, NoExitCode, NullNode, stdio)
Exits(exitCode, tree, stdio) == Outcome("exit", NotThrown, exitCode, tree, stdio)

\* exit codes wasi.start returns
ExitCodes == {0, 1, 3}

-----------------------------------------------------------------------------
(* The compile worker, zig-worker.ts *)

\* variant of isCompileRequest that looks at the tag alone
isTaggedCompile(input) == input.isObject /\ input.type = "compile"

\* zig-worker.ts:416-422
isCompileRequest(input) ==
    /\ input.isObject
    /\ input.type = "compile"
    /\ input.filesIsArray
    /\ input.entryPathIsString

\* a turn of the worker's event loop begins
BeginTurn(w) == [w EXCEPT !.posted = <<>>]

\* ctx.postMessage
ZigPost(z, message) == [z EXCEPT !.posted = Append(@, message)]

\* zig-worker.ts:424-427
postCompileError(z, message) == ZigPost(z, createCompileErrorResponse(message, "", ""))

\* variant of runCompilation that does not look at the exit code
runCompilationIgnoringExit(outcome) ==
    IF outcome.error.thrown
    THEN createCompileErrorResponse(CaughtMessage(outcome.error), outcome.stdio[1],
                                    outcome.stdio[2])
    ELSE Message("compile-success", "", outcome.stdio[1], outcome.stdio[2],
                 extractWasmArtifact(outcome.tree).buffer, NoExitCode)

\* zig-worker.ts:178-225: the response runCompilation resolves to, given where the
\* pipeline stopped; every throw inside is caught at 218
runCompilation(outcome) ==
    LET stdoutText == outcome.stdio[1]
        stderrText == outcome.stdio[2]
    IN  IF outcome.error.thrown
        THEN createCompileErrorResponse(CaughtMessage(outcome.error), stdoutText, stderrText)
        ELSE IF outcome.exitCode # 0
        THEN createCompileErrorResponse("Zig exited with code " \o ToString(outcome.exitCode),
                                        stdoutText, stderrText)
        ELSE Const(extractWasmArtifact(outcome.tree),
                   LAMBDA wasmBuffer :
                       IF wasmBuffer.isNull
                       THEN createCompileErrorResponse("Compiled artifact missing at main.wasm",
                                                       stdoutText, stderrText)
                       ELSE Message("compile-success", "", stdoutText, stderrText,
                                    wasmBuffer.buffer, NoExitCode))

\* zig-worker.ts:146-172: the catch block of handleCompile
handleCompileCatch(z, error) ==
    LET message == IF error.isError THEN error.message ELSE "Unknown compile failure"
    IN  IF isStackOverflow(error)
        THEN postCompileError(
                 ZigPost([z EXCEPT !.zigModulePromise = "null", !.compilationCount = 0],
                         FatalErrorMessage),
                 "Compiler stack overflow. This usually means: ...")
        ELSE postCompileError(z, message)

\* zig-worker.ts:130-140: handleCompile up to the call of runCompilation
handleCompileBegin(z, request) ==
    LET counted == z.compilationCount + 1
        refresh == counted >= MAX_COMPILATIONS_BEFORE_REFRESH
    IN  [z EXCEPT !.isCompiling = TRUE,
                  !.compilationCount = IF refresh THEN 0 ELSE counted,
                  !.zigModulePromise = IF refresh THEN "null" ELSE @,
                  !.started = Append(@, request.id)]

\* variant of the end of handleCompile that discards the cached module
handleCompileSettleEvicts(z, request, thrown, response) ==
    LET done == IF thrown.thrown THEN handleCompileCatch(z, thrown) ELSE ZigPost(z, response)
    IN  [done EXCEPT !.isCompiling = FALSE,
                     !.zigModulePromise = "null",
                     !.inFlight = {c \in @ : c.id # request.id}]

\* zig-worker.ts:140-175: handleCompile from the await of runCompilation on; thrown is
\* what the try block threw, if anything
handleCompileSettle(z, request, thrown, response) ==
    LET done == IF thrown.thrown THEN handleCompileCatch(z, thrown) ELSE ZigPost(z, response)
    IN  [done EXCEPT !.isCompiling = FALSE,
                     !.inFlight = {c \in @ : c.id # request.id}]

\* zig-worker.ts:296-308: hydrateAppDirectory reads file.path of every element
NullFileError == JsError("TypeError", "Cannot read properties of null (reading 'path')")

\* zig-worker.ts:178-186: the synchronous head of runCompilation either throws inside
\* the try block or reaches the first await
runCompilationHead(request) ==
    IF request.data.filesHaveNull THEN Throws("hydrate", NullFileError, <<"", "">>) ELSE Suspends

\* zig-worker.ts:106-127
RECURSIVE processQueue(_)
processQueue(z) ==
    IF z.isCompiling THEN z
    ELSE IF z.compilationQueue = <<>> THEN z
    ELSE LET request == z.compilationQueue[Len(z.compilationQueue)]
             cleared == [z EXCEPT !.compilationQueue = <<>>]
             begun == handleCompileBegin(cleared, request)
             head == runCompilationHead(request)
         IN  IF head.kind = "suspends"
             THEN [begun EXCEPT !.inFlight = @ \cup {[id |-> request.id, stage |-> "stdlib",
                                                     loads |-> FALSE,
                                                     files |-> request.data.files]}]
             ELSE LET settled == handleCompileSettle(begun, request, NotThrown,
                                                     runCompilation(head))
                  IN  IF Len(settled.compilationQueue) > 0
                      THEN processQueue(settled)
                      ELSE settled

\* variant of the end of processQueue that does not look at the pending list again
processQueueReturns(z) == z

\* zig-worker.ts:123-126: processQueue after its await of handleCompile
processQueueContinue(z) ==
    IF Len(z.compilationQueue) > 0 THEN processQueue(z) ELSE z

\* variant of the message listener that puts the request at the head of the list
zigOnMessagePrepends(z, m) ==
    IF ~isCompileRequest(m.data)
    THEN postCompileError(z, "Invalid message for zig-worker (expected compile request)")
    ELSE processQueue([z EXCEPT !.compilationQueue = <<m>> \o @,
                                !.accepted = Append(@, m.id)])

\* zig-worker.ts:32-42: the message listener
zigOnMessage(z, m) ==
    IF ~isCompileRequest(m.data)
    THEN postCompileError(z, "Invalid message for zig-worker (expected compile request)")
    ELSE processQueue([z EXCEPT !.compilationQueue = Append(@, m),
                                !.accepted = Append(@, m.id)])

\* zig-worker.ts:44-46: the messageerror listener
zigOnMessageError(z) ==
    postCompileError(z, "zig-worker failed to deserialize the incoming message payload")

\* variant of the listeners' recovery that keeps the cached module and the counter
recoveryKeepsModule(z, diagnostic) ==
    ZigPost([postCompileError(z, diagnostic) EXCEPT !.isCompiling = FALSE], FatalErrorMessage)

\* zig-worker.ts:58-80 and 92-103: what both global listeners do once the error is
\* classified as a stack overflow
zigStackOverflowRecovery(z, diagnostic) ==
    ZigPost([postCompileError(z, diagnostic) EXCEPT !.zigModulePromise = "null",
                                                    !.compilationCount = 0,
                                                    !.isCompiling = FALSE],
            FatalErrorMessage)

\* zig-worker.ts:49-81: the error listener
zigOnError(z, error) ==
    IF isStackOverflow(error)
    THEN zigStackOverflowRecovery(z, "WASM Compiler Stack Overflow ...")
    ELSE z

\* zig-worker.ts:83-104: the unhandledrejection listener
zigOnUnhandledRejection(z, error) ==
    IF isStackOverflow(error)
    THEN zigStackOverflowRecovery(z, "Compiler encountered a recursion error during async operation")
    ELSE z

\* zig-worker.ts:187-195, 241-263: runCompilation resumes after the standard library
\* and calls instantiateZig, whose loadZigModule fills the module cache when it is empty
zigAfterStdlib(z, c) ==
    [z EXCEPT !.zigModulePromise = "promise",
              !.served = IF z.zigModulePromise = "null" THEN 1 ELSE @ + 1,
              !.inFlight = (@ \ {c}) \cup
                  {[c EXCEPT !.stage = "instantiate", !.loads = (z.zigModulePromise = "null")]}]

\* zig-worker.ts:257-260: the catch attached to the module promise by the call that
\* created it
zigModuleRejected(z, outcome) ==
    IF outcome.kind = "moduleRejected" THEN [z EXCEPT !.zigModulePromise = "null"] ELSE z

\* a pipeline stops (zig-worker.ts:196-224), handleCompile returns (140-175) and
\* processQueue goes on (123-126)
zigFinish(z, c, outcome) ==
    processQueueContinue(
        handleCompileSettle(zigModuleRejected(z, outcome), c, NotThrown, runCompilation(outcome)))

\* how the await of getZigStdlibDirectory can end
StdlibOutcomes == {Suspends} \cup {Throws("stdlibRejected", e, <<"", "">>) : e \in PipelineErrors}
\* how the rest of the compile pipeline can end
CompileOutcomes(c) ==
    {Throws("moduleRejected", FetchError, <<"", "">>) : x \in {y \in {c} : y.loads}}
    \cup {Throws("instantiateRejected", e, <<"", "">>) : e \in PipelineErrors}
    \cup {Throws("startThrows", e, io) : e \in PipelineErrors, io \in CapturedStdio}
    \cup {Exits(0, tree, io) : tree \in AppTrees, io \in CapturedStdio}
    \cup {Exits(code, tree, <<"hello", "main.zig:1:1: error">>) :
              code \in ExitCodes \ {0}, tree \in {SourceOnlyTree, EmittedTree(Wasm1)}}

-----------------------------------------------------------------------------
(* The run worker, runner-worker.ts *)

\* runner-worker.ts:300-306
isRunnerRequest(input) ==
    /\ input.isObject
    /\ input.type = "run"
    /\ input.wasmIsArrayBuffer

\* ctx.postMessage
RunnerPost(r, message) == [r EXCEPT !.posted = Append(@, message)]

\* runner-worker.ts:308-315
postRunError(r, message) == RunnerPost(r, RunErrorResponse(message))

\* variant of executeProgram that reports a nonzero exit code as a failure
executeProgramFailsOnNonzero(outcome) ==
    IF outcome.error.thrown \/ outcome.exitCode # 0
    THEN Message("run-error", "Program exited with code " \o ToString(outcome.exitCode), "",
                 outcome.stdio[2], NoWasm, NoExitCode)
    ELSE Message("run-success", "", outcome.stdio[1], outcome.stdio[2], NoWasm,
                 outcome.exitCode)

\* runner-worker.ts:146-179: the response executeProgram resolves to, given where the
\* pipeline stopped; every throw inside is caught at 169
executeProgram(outcome) ==
    IF outcome.error.thrown
    THEN Message("run-error", CaughtMessage(outcome.error), "", outcome.stdio[2], NoWasm,
                 NoExitCode)
    ELSE Message("run-success", "", outcome.stdio[1], outcome.stdio[2], NoWasm,
                 outcome.exitCode)

\* runner-worker.ts:138-140: the catch block of handleRun; String(error) of a thrown
\* text is the text
handleRunCatch(r, error) == postRunError(r, error.message)

\* runner-worker.ts:134
handleRunBegin(r, request) ==
    [r EXCEPT !.isRunning = TRUE, !.started = Append(@, request.id)]

\* variant of the end of handleRun without the finally block
handleRunSettleKeepsBusy(r, request, thrown, response) ==
    LET done == IF thrown.thrown THEN handleRunCatch(r, thrown) ELSE RunnerPost(r, response)
    IN  [done EXCEPT !.inFlight = {c \in @ : c.id # request.id}]

\* runner-worker.ts:136-143: handleRun from the await of executeProgram on
handleRunSettle(r, request, thrown, response) ==
    LET done == IF thrown.thrown THEN handleRunCatch(r, thrown) ELSE RunnerPost(r, response)
    IN  [done EXCEPT !.isRunning = FALSE,
                     !.inFlight = {c \in @ : c.id # request.id}]

\* runner-worker.ts:151-158: the synchronous head of executeProgram;
\* hydrateAppDirectory (212-222) reads file.path of every element
executeProgramHead(request) ==
    IF request.data.filesHaveNull THEN Throws("hydrate", NullFileError, <<"", "">>) ELSE Suspends

\* runner-worker.ts:110-131
RECURSIVE processRunQueue(_)
processRunQueue(r) ==
    IF r.isRunning THEN r
    ELSE IF r.runQueue = <<>> THEN r
    ELSE LET request == r.runQueue[Len(r.runQueue)]
             cleared == [r EXCEPT !.runQueue = <<>>]
             begun == handleRunBegin(cleared, request)
             head == executeProgramHead(request)
         IN  IF head.kind = "suspends"
             THEN [begun EXCEPT !.inFlight = @ \cup {[id |-> request.id,
                                                     stage |-> "instantiate"]}]
             ELSE LET settled == handleRunSettle(begun, request, NotThrown,
                                                 executeProgram(head))
                  IN  IF Len(settled.runQueue) > 0
                      THEN processRunQueue(settled)
                      ELSE settled

\* runner-worker.ts:127-130: processQueue after its await of handleRun
processRunQueueContinue(r) ==
    IF Len(r.runQueue) > 0 THEN processRunQueue(r) ELSE r

\* runner-worker.ts:96-106: the message listener
runnerOnMessage(r, m) ==
    IF ~isRunnerRequest(m.data)
    THEN postRunError(r, "Invalid runner request payload")
    ELSE processRunQueue([r EXCEPT !.runQueue = Append(@, m),
                                   !.accepted = Append(@, m.id)])

\* runner-worker.ts:108: the messageerror listener
runnerOnMessageError(r) == postRunError(r, "runner-worker failed to parse incoming message")

\* runner-worker.ts:10-25: the error listener
runnerOnError(r, error) ==
    IF isStackOverflow(error)
    THEN postRunError(r, "Program caused stack overflow - likely infinite recursion in your code")
    ELSE r

\* runner-worker.ts:27-42: the unhandledrejection listener
runnerOnUnhandledRejection(r, error) ==
    IF isStackOverflow(error)
    THEN postRunError(r, "Program caused stack overflow during async operation")
    ELSE r

\* a pipeline stops (runner-worker.ts:159-178), handleRun returns (136-143) and
\* processQueue goes on (127-130)
runnerFinish(r, c, outcome) ==
    processRunQueueContinue(handleRunSettle(r, c, NotThrown, executeProgram(outcome)))

\* how the run pipeline can end once it is past its first await
RunOutcomes ==
    {Throws("instantiateRejected", e, <<"", "">>) : e \in PipelineErrors}
    \cup {Throws("startThrows", e, <<"hello", "panic">>) : e \in PipelineErrors}
    \cup {Exits(code, NullNode, io) : code \in ExitCodes, io \in CapturedStdio}

-----------------------------------------------------------------------------
(* Turns of the compile worker *)

\* zig-worker.ts:57-59, runner-worker.ts:19-21: event.preventDefault() is called for
\* the errors classified as stack overflow; any other uncaught error goes on to the
\* error event of the page's Worker object
Propagated(error) == IF isStackOverflow(error) THEN <<>> ELSE <<ErrorEvent>>

\* a message event whose payload the environment chose: a request object of its own
\* identity, or a payload the listener will refuse
EnvMessageZig(payload) ==
    /\ driven = "zig"
    /\ IF isCompileRequest(payload)
       THEN nextId <= MaxArrivals /\ nextId' = nextId + 1 /\ faults' = faults
       ELSE faults < MaxFaults /\ faults' = faults + 1 /\ nextId' = nextId
    /\ zig' = zigOnMessage(BeginTurn(zig), WithId(payload, nextId))
    /\ turn' = Turn("zig-message", WithId(payload, nextId), NotThrown, NoOutcome)
    /\ zigOutbox' = ToHost(zigOutbox, zig'.posted)
    /\ UNCHANGED <<zigInbox, runner, runnerInbox, driven, host, runnerOutbox>>
    /\ UNCHANGED <<fs, assets>>

\* a compile request posted while the worker is not compiling, as the page's Run
\* button posts them (ZigPlayground.tsx:626-629, 669)
EnvCompileWhenIdle ==
    /\ driven = "refresh"
    /\ ~zig.isCompiling
    /\ nextId <= MaxCompilations
    /\ nextId' = nextId + 1
    /\ zig' = zigOnMessage(BeginTurn(zig), WithId(CompileRequest, nextId))
    /\ turn' = Turn("zig-message", WithId(CompileRequest, nextId), NotThrown, NoOutcome)
    /\ zigOutbox' = ToHost(zigOutbox, zig'.posted)
    /\ UNCHANGED <<zigInbox, runner, runnerInbox, faults, driven, host, runnerOutbox>>
    /\ UNCHANGED <<fs, assets>>

ZigMessage ==
    /\ Drives("zig")
    /\ zigInbox # <<>>
    /\ zig' = zigOnMessage(BeginTurn(zig), Head(zigInbox))
    /\ zigInbox' = Tail(zigInbox)
    /\ turn' = Turn("zig-message", Head(zigInbox), NotThrown, NoOutcome)
    /\ zigOutbox' = ToHost(zigOutbox, zig'.posted)
    /\ UNCHANGED <<runner, runnerInbox, nextId, faults, driven, host, runnerOutbox>>
    /\ UNCHANGED <<fs, assets>>

ZigMessageError ==
    /\ Drives("zig")
    /\ faults < MaxFaults
    /\ faults' = faults + 1
    /\ zig' = zigOnMessageError(BeginTurn(zig))
    /\ turn' = Turn("zig-messageerror", NoRequest, NotThrown, NoOutcome)
    /\ zigOutbox' = ToHost(zigOutbox, zig'.posted)
    /\ UNCHANGED <<zigInbox, runner, runnerInbox, nextId, driven, host, runnerOutbox>>
    /\ UNCHANGED <<fs, assets>>

ZigError(error) ==
    /\ Drives("zig")
    /\ faults < FaultBudget
    /\ faults' = faults + 1
    /\ zig' = zigOnError(BeginTurn(zig), error)
    /\ turn' = Turn("zig-error", NoRequest, error, NoOutcome)
    /\ zigOutbox' = ToHost(zigOutbox, zig'.posted \o Propagated(error))
    /\ UNCHANGED <<zigInbox, runner, runnerInbox, nextId, driven, host, runnerOutbox>>
    /\ UNCHANGED <<fs, assets>>

ZigUnhandledRejection(error) ==
    /\ Drives("zig")
    /\ faults < MaxFaults
    /\ faults' = faults + 1
    /\ zig' = zigOnUnhandledRejection(BeginTurn(zig), error)
    /\ turn' = Turn("zig-unhandledrejection", NoRequest, error, NoOutcome)
    /\ zigOutbox' = ToHost(zigOutbox, zig'.posted)
    /\ UNCHANGED <<zigInbox, runner, runnerInbox, nextId, driven, host, runnerOutbox>>
    /\ UNCHANGED <<fs, assets>>

ZigResumeStdlib(c, outcome) ==
    /\ Drives("zig")
    /\ c \in zig.inFlight
    /\ c.stage = "stdlib"
    /\ turn' = Turn("zig-resume-stdlib", Resumed(c), NotThrown, outcome)
    /\ zig' = IF outcome.kind = "suspends" THEN zigAfterStdlib(BeginTurn(zig), c)
              ELSE zigFinish(BeginTurn(zig), c, outcome)
    /\ zigOutbox' = ToHost(zigOutbox, zig'.posted)
    /\ UNCHANGED <<zigInbox, runner, runnerInbox, nextId, faults, driven, host, runnerOutbox>>
    /\ UNCHANGED <<fs, assets>>

ZigResumeInstantiate(c, outcome) ==
    /\ Drives("zig")
    /\ c \in zig.inFlight
    /\ c.stage = "instantiate"
    /\ turn' = Turn("zig-resume-instantiate", Resumed(c), NotThrown, outcome)
    /\ zig' = zigFinish(BeginTurn(zig), c, outcome)
    /\ zigOutbox' = ToHost(zigOutbox, zig'.posted)
    /\ UNCHANGED <<zigInbox, runner, runnerInbox, nextId, faults, driven, host, runnerOutbox>>
    /\ UNCHANGED <<fs, assets>>

-----------------------------------------------------------------------------
(* Turns of the run worker *)

EnvMessageRunner(payload) ==
    /\ driven = "runner"
    /\ IF isRunnerRequest(payload)
       THEN nextId <= MaxArrivals /\ nextId' = nextId + 1 /\ faults' = faults
       ELSE faults < MaxFaults /\ faults' = faults + 1 /\ nextId' = nextId
    /\ runner' = runnerOnMessage(BeginTurn(runner), WithId(payload, nextId))
    /\ turn' = Turn("runner-message", WithId(payload, nextId), NotThrown, NoOutcome)
    /\ runnerOutbox' = ToHost(runnerOutbox, runner'.posted)
    /\ UNCHANGED <<zig, zigInbox, runnerInbox, driven, host, zigOutbox>>
    /\ UNCHANGED <<fs, assets>>

RunnerMessage ==
    /\ Drives("runner")
    /\ runnerInbox # <<>>
    /\ runner' = runnerOnMessage(BeginTurn(runner), Head(runnerInbox))
    /\ runnerInbox' = Tail(runnerInbox)
    /\ turn' = Turn("runner-message", Head(runnerInbox), NotThrown, NoOutcome)
    /\ runnerOutbox' = ToHost(runnerOutbox, runner'.posted)
    /\ UNCHANGED <<zig, zigInbox, nextId, faults, driven, host, zigOutbox>>
    /\ UNCHANGED <<fs, assets>>

RunnerMessageError ==
    /\ Drives("runner")
    /\ faults < MaxFaults
    /\ faults' = faults + 1
    /\ runner' = runnerOnMessageError(BeginTurn(runner))
    /\ turn' = Turn("runner-messageerror", NoRequest, NotThrown, NoOutcome)
    /\ runnerOutbox' = ToHost(runnerOutbox, runner'.posted)
    /\ UNCHANGED <<zig, zigInbox, runnerInbox, nextId, driven, host, zigOutbox>>
    /\ UNCHANGED <<fs, assets>>

RunnerError(error) ==
    /\ Drives("runner")
    /\ faults < MaxFaults
    /\ faults' = faults + 1
    /\ runner' = runnerOnError(BeginTurn(runner), error)
    /\ turn' = Turn("runner-error", NoRequest, error, NoOutcome)
    /\ runnerOutbox' = ToHost(runnerOutbox, runner'.posted \o Propagated(error))
    /\ UNCHANGED <<zig, zigInbox, runnerInbox, nextId, driven, host, zigOutbox>>
    /\ UNCHANGED <<fs, assets>>

RunnerUnhandledRejection(error) ==
    /\ Drives("runner")
    /\ faults < MaxFaults
    /\ faults' = faults + 1
    /\ runner' = runnerOnUnhandledRejection(BeginTurn(runner), error)
    /\ turn' = Turn("runner-unhandledrejection", NoRequest, error, NoOutcome)
    /\ runnerOutbox' = ToHost(runnerOutbox, runner'.posted)
    /\ UNCHANGED <<zig, zigInbox, runnerInbox, nextId, driven, host, zigOutbox>>
    /\ UNCHANGED <<fs, assets>>

RunnerResume(c, outcome) ==
    /\ Drives("runner")
    /\ c \in runner.inFlight
    /\ turn' = Turn("runner-resume", Resumed(c), NotThrown, outcome)
    /\ runner' = runnerFinish(BeginTurn(runner), c, outcome)
    /\ runnerOutbox' = ToHost(runnerOutbox, runner'.posted)
    /\ UNCHANGED <<zig, zigInbox, runnerInbox, nextId, faults, driven, host, zigOutbox>>
    /\ UNCHANGED <<fs, assets>>

-----------------------------------------------------------------------------
(* The page, ZigPlayground.tsx *)

\* a ref that holds no worker
Null == 0 - 1

\* ZigPlayground.tsx:321-336 once the component is mounted and its effects have run.
\* A ref holds the generation of the worker it points to; effectGeneration is the
\* workerGeneration the last run of the lifecycle effect was rendered with;
\* workersAlive: that run created its workers and they are not terminated; faulted: the
\* generations of workers for which a fatal-error notification has been handled
MountedHost ==
    [compileState |-> "idle", runState |-> "idle", workerGeneration |-> 0,
     zigWorkerRef |-> 0, runnerWorkerRef |-> 0, effectGeneration |-> 0,
     workersAlive |-> TRUE, runtimeAssetsReady |-> FALSE, faulted |-> {},
     lastCompileFilesRef |-> <<>>]

\* ZigPlayground.tsx:344
isExecuting(h) == h.compileState = "compiling" \/ h.runState = "running"

\* ZigPlayground.tsx:404-415
resetExecutionState(h) == [h EXCEPT !.compileState = "idle", !.runState = "idle"]

\* ZigPlayground.tsx:417-419
restartWorkers(h) == [h EXCEPT !.workerGeneration = @ + 1]

\* ZigPlayground.tsx:497-501: the handler goes on to post a run request
PostsRunRequest(h, response) ==
    response.type = "compile-success" /\ h.runnerWorkerRef # Null

\* ZigPlayground.tsx:511-515: files is lastCompileFilesRef.current, an array
runnerRequest(h, response) ==
    [RunRequest(response.wasm) EXCEPT !.filesIsArray = TRUE, !.files = h.lastCompileFilesRef]

\* variant of handleCompileMessage that restarts the workers after every failure
handleCompileMessageRestarts(h, response) ==
    IF response.type = "compile-success"
    THEN IF h.runnerWorkerRef = Null
         THEN [h EXCEPT !.compileState = "succeeded"]
         ELSE [h EXCEPT !.compileState = "succeeded", !.runState = "running"]
    ELSE IF response.type \in {"compile-error", "fatal-error"}
    THEN [restartWorkers(h) EXCEPT !.compileState = "failed", !.runState = "idle"]
    ELSE h

\* ZigPlayground.tsx:485-536
handleCompileMessage(h, response) ==
    IF response.type = "compile-success"
    THEN IF h.runnerWorkerRef = Null
         THEN [h EXCEPT !.compileState = "succeeded"]
         ELSE [h EXCEPT !.compileState = "succeeded", !.runState = "running"]
    ELSE IF response.type = "compile-error"
    THEN [h EXCEPT !.compileState = "failed", !.runState = "idle"]
    ELSE IF response.type = "fatal-error"
    THEN IF response.message = "stack-overflow"
         THEN [restartWorkers(h) EXCEPT !.faulted = @ \cup {h.effectGeneration}]
         ELSE h
    ELSE h

\* ZigPlayground.tsx:538-559
handleRunnerMessage(h, response) ==
    IF response.type = "run-success" THEN [h EXCEPT !.runState = "succeeded"]
    ELSE IF response.type = "run-error" THEN [h EXCEPT !.runState = "failed"]
    ELSE h

\* ZigPlayground.tsx:561-566
handleCompileFault(h) == restartWorkers(resetExecutionState(h))

\* ZigPlayground.tsx:568-573
handleRunnerFault(h) == restartWorkers(resetExecutionState(h))

\* ZigPlayground.tsx:467-483, 575-597: the lifecycle effect runs for the render of h: the
\* cleanup of its previous run removes the listeners, terminates both workers and
\* empties the refs; then both workers are constructed anew, unless new Worker throws
WorkerLifecycle(h, created) ==
    /\ created \/ faults < MaxFaults
    /\ faults' = IF created THEN faults ELSE faults + 1
    /\ zig' = FreshZigWorker
    /\ runner' = FreshRunnerWorker
    /\ zigInbox' = <<>>
    /\ runnerInbox' = <<>>
    /\ zigOutbox' = <<>>
    /\ runnerOutbox' = <<>>
    /\ host' = [h EXCEPT !.effectGeneration = h.workerGeneration,
                         !.workersAlive = created,
                         !.zigWorkerRef = IF created THEN h.workerGeneration ELSE Null,
                         !.runnerWorkerRef = IF created THEN h.workerGeneration ELSE Null]

\* a step of the page, and the event it handled
HostTurn(handler, message) ==
    [Turn(handler, NoRequest, NotThrown, NoOutcome) EXCEPT !.message = message]

\* a render scheduled from a worker's event has been committed and its effects have run:
\* the state in which the page handles a click
EffectsFlushed == host.effectGeneration = host.workerGeneration

\* a message event of the compile worker
HostCompileMessage ==
    /\ driven = "both"
    /\ zigOutbox # <<>>
    /\ Head(zigOutbox).type # "error"
    /\ LET response == Head(zigOutbox)
       IN  /\ host' = handleCompileMessage(host, response)
           /\ IF PostsRunRequest(host, response)
              THEN /\ runnerInbox' = Append(runnerInbox, WithId(runnerRequest(host, response), nextId))
                   /\ nextId' = nextId + 1
              ELSE UNCHANGED <<runnerInbox, nextId>>
           /\ turn' = HostTurn("host-compile-message", response)
    /\ zigOutbox' = Tail(zigOutbox)
    /\ UNCHANGED <<zig, zigInbox, runner, faults, driven, runnerOutbox>>
    /\ UNCHANGED <<fs, assets>>

\* an error event of the compile worker
HostCompileFault ==
    /\ driven = "both"
    /\ zigOutbox # <<>>
    /\ Head(zigOutbox).type = "error"
    /\ host' = handleCompileFault(host)
    /\ zigOutbox' = Tail(zigOutbox)
    /\ turn' = HostTurn("host-compile-fault", Head(zigOutbox))
    /\ UNCHANGED <<zig, zigInbox, runner, runnerInbox, nextId, faults, driven, runnerOutbox>>
    /\ UNCHANGED <<fs, assets>>

\* a message event of the run worker
HostRunnerMessage ==
    /\ driven = "both"
    /\ runnerOutbox # <<>>
    /\ Head(runnerOutbox).type # "error"
    /\ host' = handleRunnerMessage(host, Head(runnerOutbox))
    /\ runnerOutbox' = Tail(runnerOutbox)
    /\ turn' = HostTurn("host-runner-message", Head(runnerOutbox))
    /\ UNCHANGED <<zig, zigInbox, runner, runnerInbox, nextId, faults, driven, zigOutbox>>
    /\ UNCHANGED <<fs, assets>>

\* an error event of the run worker
HostRunnerFault ==
    /\ driven = "both"
    /\ runnerOutbox # <<>>
    /\ Head(runnerOutbox).type = "error"
    /\ host' = handleRunnerFault(host)
    /\ runnerOutbox' = Tail(runnerOutbox)
    /\ turn' = HostTurn("host-runner-fault", Head(runnerOutbox))
    /\ UNCHANGED <<zig, zigInbox, runner, runnerInbox, nextId, faults, driven, zigOutbox>>
    /\ UNCHANGED <<fs, assets>>

\* the lifecycle effect runs after a render with a new workerGeneration
HostLifecycleEffect(created) ==
    /\ driven = "both"
    /\ ~EffectsFlushed
    /\ WorkerLifecycle(host, created)
    /\ turn' = HostTurn("host-effect", NoMessage)
    /\ UNCHANGED <<nextId, driven>>
    /\ UNCHANGED <<fs, assets>>

\* ZigPlayground.tsx:645-655: the compile request for the source in the editor
compileRequest(files) == [CompileRequest EXCEPT !.files = files]

\* ZigPlayground.tsx:622-670: a click on Run, which the button takes while there is
\* source and nothing is executing (766-767); files is the one-element list made of
\* the source in the editor at that moment (645-650); the render and the effects of a
\* click are flushed with it
HandleRun(created, files) ==
    /\ driven = "both"
    /\ EffectsFlushed
    /\ ~isExecuting(host)
    /\ nextId <= MaxPosted + 1
    /\ turn' = HostTurn("host-run", NoMessage)
    /\ IF ~host.runtimeAssetsReady
       THEN /\ created
            /\ UNCHANGED <<zig, zigInbox, runner, runnerInbox, nextId, faults, host,
                           zigOutbox, runnerOutbox>>
       ELSE IF host.zigWorkerRef = Null \/ host.runnerWorkerRef = Null
       THEN /\ WorkerLifecycle(restartWorkers(host), created)
            /\ UNCHANGED nextId
       ELSE /\ created
            /\ host' = [host EXCEPT !.compileState = "compiling", !.runState = "idle",
                                    !.lastCompileFilesRef = files]
            /\ zigInbox' = Append(zigInbox, WithId(compileRequest(files), nextId))
            /\ nextId' = nextId + 1
            /\ UNCHANGED <<zig, runner, runnerInbox, faults, zigOutbox, runnerOutbox>>
    /\ UNCHANGED driven
    /\ UNCHANGED <<fs, assets>>

\* ZigPlayground.tsx:694-698: a click on Stop, which is rendered while something is
\* executing (839-843)
HandleStop(created) ==
    /\ driven = "both"
    /\ EffectsFlushed
    /\ isExecuting(host)
    /\ host.workerGeneration < MaxGeneration
    /\ WorkerLifecycle(restartWorkers(resetExecutionState(host)), created)
    /\ turn' = HostTurn("host-stop", NoMessage)
    /\ UNCHANGED <<nextId, driven>>
    /\ UNCHANGED <<fs, assets>>

\* ZigPlayground.tsx:686-692: a click on Reset
HandleResetWorkspace ==
    /\ driven = "both"
    /\ EffectsFlushed
    /\ host' = resetExecutionState(host)
    /\ turn' = HostTurn("host-reset", NoMessage)
    /\ UNCHANGED <<zig, zigInbox, runner, runnerInbox, nextId, faults, driven, zigOutbox,
                   runnerOutbox>>
    /\ UNCHANGED <<fs, assets>>

\* ZigPlayground.tsx:343, 421-441: the warm-up reports every runtime asset ready
HostAssetsReady ==
    /\ driven = "both"
    /\ ~host.runtimeAssetsReady
    /\ host' = [host EXCEPT !.runtimeAssetsReady = TRUE]
    /\ turn' = HostTurn("host-assets-ready", NoMessage)
    /\ UNCHANGED <<zig, zigInbox, runner, runnerInbox, nextId, faults, driven, zigOutbox,
                   runnerOutbox>>
    /\ UNCHANGED <<fs, assets>>

-----------------------------------------------------------------------------
(* Calls of the virtual filesystem builder *)

\* zig-worker.ts:184: runCompilation normalizes the entry path of its request
NormalizeEntryPath ==
    /\ driven = "builder"
    /\ fs.job = "normalize"
    /\ ~fs.done
    /\ fs' = [fs EXCEPT !.normalized = normalizeEntryPath(fs.path), !.done = TRUE]
    /\ turn' = Turn("normalize", NoRequest, NotThrown, NoOutcome)
    /\ UNCHANGED <<zig, zigInbox, runner, runnerInbox, nextId, faults, driven, host,
                   zigOutbox, runnerOutbox, assets>>

\* ZigPlayground.tsx:234-238: makeFilePayload gives the file of a request the path
\* normalizeWorkerPath returns for file.path || file.name
MakeFilePayload ==
    /\ driven = "builder"
    /\ fs.job = "payload"
    /\ ~fs.sent
    /\ fs' = [fs EXCEPT !.normalized = normalizeWorkerPath(fs.path), !.sent = TRUE]
    /\ turn' = Turn("payload", NoRequest, NotThrown, NoOutcome)
    /\ UNCHANGED <<zig, zigInbox, runner, runnerInbox, nextId, faults, driven, host,
                   zigOutbox, runnerOutbox, assets>>

\* zig-worker.ts:300, runner-worker.ts:215: each worker normalizes the path of the file
\* it received before it writes the file
WorkersNormalize ==
    /\ driven = "builder"
    /\ fs.job = "payload"
    /\ fs.sent
    /\ ~fs.done
    /\ fs' = [fs EXCEPT !.compilerPath = normalizeEntryPath(fs.normalized),
                        !.runnerPath = runnerNormalizeEntryPath(fs.normalized),
                        !.done = TRUE]
    /\ turn' = Turn("relative-path", NoRequest, NotThrown, NoOutcome)
    /\ UNCHANGED <<zig, zigInbox, runner, runnerInbox, nextId, faults, driven, host,
                   zigOutbox, runnerOutbox, assets>>

\* zig-worker.ts:185-186, runner-worker.ts:153: an invocation builds its workspace tree
\* from the files of its request, and its empty cache-scratch directory
HydrateInvocation ==
    /\ driven \in {"builder", "stdlib"}
    /\ fs.job = "hydrate"
    /\ Len(fs.invocations) < MaxInvocations
    /\ LET appDirectory == hydrateAppDirectory(fs.heap, fs.files)
           cacheDirectory == New(appDirectory.heap, DirectoryNode(<<>>))
           stdlibDirectory == getZigStdlibDirectory(cacheDirectory.heap, fs.cachedStdlibTree)
       IN  fs' = [fs EXCEPT !.heap = stdlibDirectory.heap,
                            !.invocations =
                                Append(@, [workspace |-> appDirectory.addr,
                                           cache |-> cacheDirectory.addr,
                                           stdlib |-> stdlibDirectory.addr,
                                           presented |-> TreeAt(stdlibDirectory.heap,
                                                                stdlibDirectory.addr)]),
                            !.wrote = FALSE,
                            !.changed = FALSE]
    /\ turn' = Turn("hydrate", NoRequest, NotThrown, NoOutcome)
    /\ UNCHANGED <<zig, zigInbox, runner, runnerInbox, nextId, faults, driven, host,
                   zigOutbox, runnerOutbox, assets>>

\* zig-worker.ts:196, 290-292: the guest of the latest invocation writes through its
\* preopens, which share the contents of the directories: the artifact into the
\* workspace, a scratch file into the cache
GuestWrites(artifact) ==
    /\ driven \in {"builder", "stdlib"}
    /\ fs.job = "hydrate"
    /\ fs.invocations # <<>>
    /\ ~fs.wrote
    /\ LET latest == fs.invocations[Len(fs.invocations)]
           emitted == New(fs.heap, FileNode(artifact, FALSE))
           inWorkspace == MapSet(emitted.heap, latest.workspace, EMIT_WASM_PATH, emitted.addr)
           scratch == New(inWorkspace, FileNode(<<1>>, FALSE))
       IN  fs' = [fs EXCEPT !.heap = MapSet(scratch.heap, latest.cache, <<"h">>, scratch.addr),
                            !.wrote = TRUE]
    /\ turn' = Turn("guest-writes", NoRequest, NotThrown, NoOutcome)
    /\ UNCHANGED <<zig, zigInbox, runner, runnerInbox, nextId, faults, driven, host,
                   zigOutbox, runnerOutbox, assets>>

\* zig-worker.ts:299-305: hydrateAppDirectory writes the next entry of its list into the
\* directory it made, which is the first object
WriteFileCall ==
    /\ driven = "writer"
    /\ fs.job = "write"
    /\ fs.written < Len(fs.files)
    /\ LET file == fs.files[fs.written + 1]
       IN  fs' = [fs EXCEPT !.heap = writeFile(@, 1, normalizeEntryPath(file.path),
                                               file.contents, file.readOnly),
                            !.written = @ + 1]
    /\ turn' = Turn("write-file", NoRequest, NotThrown, NoOutcome)
    /\ UNCHANGED <<zig, zigInbox, runner, runnerInbox, nextId, faults, driven, host,
                   zigOutbox, runnerOutbox, assets>>

\* zig-worker.ts:196, 291: the guest of the latest invocation works in its
\* standard-library preopen, which shares the contents of the directory: it creates a
\* file there, or unlinks an entry
GuestChangesStdlib(create, name) ==
    /\ driven = "stdlib"
    /\ fs.job = "hydrate"
    /\ fs.invocations # <<>>
    /\ ~fs.changed
    /\ LET latest == fs.invocations[Len(fs.invocations)]
           created == New(fs.heap, FileNode(<<1>>, FALSE))
       IN  IF create
           THEN fs' = [fs EXCEPT !.heap = MapSet(created.heap, latest.stdlib, name,
                                                 created.addr),
                                 !.changed = TRUE]
           ELSE /\ name \in DOMAIN fs.heap[latest.stdlib].contents
                /\ fs' = [fs EXCEPT !.heap = MapDelete(fs.heap, latest.stdlib, name),
                                    !.changed = TRUE]
    /\ turn' = Turn("guest-stdlib", NoRequest, NotThrown, NoOutcome)
    /\ UNCHANGED <<zig, zigInbox, runner, runnerInbox, nextId, faults, driven, host,
                   zigOutbox, runnerOutbox, assets>>

-----------------------------------------------------------------------------
(* Calls of the asset library *)

Others ==
    <<zig, zigInbox, runner, runnerInbox, nextId, faults, driven, host, zigOutbox,
      runnerOutbox, turn, fs>>

\* part_007:71-72: a caller asks for a binary
CallFetchWasmAsset(kind) ==
    /\ driven = "assets"
    /\ assets.calls < MaxCalls
    /\ assets' = Called(fetchWasmAsset(assets, kind), "fetchWasmAsset", kind)
    /\ UNCHANGED Others

\* zig-worker.ts:187, part_007:73, part_005:20-23: a caller asks for the standard library
CallGetZigStdlibDirectory ==
    /\ driven = "assets"
    /\ assets.calls < MaxCalls
    /\ assets' = Called(loadStdlibTree(assets), "getZigStdlibDirectory", "stdlib")
    /\ UNCHANGED Others

\* zig-worker.ts:241: instantiateZig asks for the compiled module
CallLoadZigModule ==
    /\ driven = "assets"
    /\ assets.calls < MaxCalls
    /\ assets' = Called(loadZigModule(assets), "loadZigModule", "zig")
    /\ UNCHANGED Others

\* zig-worker.ts:74-75, 94-95, 134-137: the cached module is discarded
EvictModule ==
    /\ driven = "assets"
    /\ assets.evictions < MaxEvictions
    /\ assets.zigModulePromise = "promise"
    /\ assets' = [assets EXCEPT !.zigModulePromise = "null", !.evictions = @ + 1,
                                !.last = [op |-> "evict", asset |-> "zig"]]
    /\ UNCHANGED Others

\* the network answers a fetch
FetchSettles(f, ok) ==
    /\ driven = "assets"
    /\ f \in assets.inFlight
    /\ assets' = [(IF f.asset = "stdlib" THEN archiveFetchSettles(assets, f.fetch, ok)
                   ELSE wasmFetchSettles(assets, f.asset, f.fetch, ok))
                     EXCEPT !.last = [op |-> "settle", asset |-> f.asset]]
    /\ UNCHANGED Others

\* the archive is unpacked, or is found damaged
HydrationSettles(ok) ==
    /\ driven = "assets"
    /\ assets.stdlibTreePromise.state = "pending"
    /\ assets.stdlibTreePromise.awaits = "gunzip"
    /\ assets' = [hydrationSettles(assets, ok) EXCEPT !.last = [op |-> "hydrated", asset |-> "stdlib"]]
    /\ UNCHANGED Others

\* ZigPlayground.tsx:450: a component of the page warms the assets
CallWarmZigAssets(onUpdate, throws) ==
    /\ driven = "warm"
    /\ Len(assets.registry.calls) < MaxWarmCalls
    /\ throws => /\ onUpdate # "none"
                 /\ faults < MaxListenerFaults
    /\ assets' = [warmZigAssets(assets, onUpdate, throws) EXCEPT
                      !.last = [op |-> "warmZigAssets", asset |-> ""]]
    /\ faults' = IF throws THEN faults + 1 ELSE faults
    /\ UNCHANGED <<zig, zigInbox, runner, runnerInbox, nextId, driven, host, zigOutbox,
                   runnerOutbox, turn, fs>>

\* the network answers a fetch of the page; the archive still has to be unpacked when
\* its fetch resolves
WarmFetchSettles(f, ok) ==
    /\ driven = "warm"
    /\ f \in assets.inFlight
    /\ assets' =
           [(IF f.asset = "stdlib"
             THEN IF ok THEN archiveFetchSettles(assets, f.fetch, TRUE)
                  ELSE actionSettles(archiveFetchSettles(assets, f.fetch, FALSE),
                                     "stdlib", FALSE)
             ELSE actionSettles(wasmFetchSettles(assets, f.asset, f.fetch, ok), f.asset, ok))
               EXCEPT !.last = [op |-> "settle", asset |-> f.asset]]
    /\ UNCHANGED Others

\* the archive of the page is unpacked, or is found damaged
WarmHydrationSettles(ok) ==
    /\ driven = "warm"
    /\ assets.stdlibTreePromise.state = "pending"
    /\ assets.stdlibTreePromise.awaits = "gunzip"
    /\ assets' = [actionSettles(hydrationSettles(assets, ok), "stdlib", ok)
                      EXCEPT !.last = [op |-> "hydrated", asset |-> "stdlib"]]
    /\ UNCHANGED Others

-----------------------------------------------------------------------------
(* Specifications *)

WorkerInit ==
    /\ driven \in {"zig", "runner"}
    /\ zig = FreshZigWorker
    /\ zigInbox = <<>>
    /\ runner = FreshRunnerWorker
    /\ runnerInbox = <<>>
    /\ nextId = 1
    /\ faults = 0
    /\ host = MountedHost
    /\ zigOutbox = <<>>
    /\ runnerOutbox = <<>>
    /\ turn = Turn("init", NoRequest, NotThrown, NoOutcome)
    /\ fs = NoJob
    /\ assets = FreshAssets

WorkerNext ==
    \/ \E payload \in EnvPayloads : EnvMessageZig(payload)
    \/ ZigMessageError
    \/ \E error \in FaultErrors : ZigError(error)
    \/ \E error \in FaultErrors : ZigUnhandledRejection(error)
    \/ \E c \in zig.inFlight, outcome \in StdlibOutcomes : ZigResumeStdlib(c, outcome)
    \/ \E c \in zig.inFlight : \E outcome \in CompileOutcomes(c) :
           ZigResumeInstantiate(c, outcome)
    \/ \E payload \in EnvPayloads : EnvMessageRunner(payload)
    \/ RunnerMessageError
    \/ \E error \in FaultErrors : RunnerError(error)
    \/ \E error \in FaultErrors : RunnerUnhandledRejection(error)
    \/ \E c \in runner.inFlight, outcome \in RunOutcomes : RunnerResume(c, outcome)

WorkerSpec == WorkerInit /\ [][WorkerNext]_vars

\* the errors, and the ends of the pipelines, that the workers meet under the page: one
\* of each kind the page can tell apart.  The unhandledrejection listeners are left to
\* WorkerSpec: what they post is what the error listeners post
PageFaultErrors == {StackRangeError, FetchError}
PageStdlibOutcomes == {Suspends, Throws("stdlibRejected", FetchError, <<"", "">>)}
\* ZigPlayground.tsx:645-650: the file list handleRun makes of the source in the editor
filePayload(source) == <<FilePayload(MAIN_ZIG, source, FALSE)>>

\* the editor holds the starter snippet (Spec), or the snippet or an edited source
\* (EditorSpec), when Run is clicked
StarterFiles == {filePayload(<<"a">>)}
EditorFiles == {filePayload(<<"a">>), filePayload(<<"b">>)}

\* the artifact the compiler emits is a function of the files it was given
ArtifactOf(files) == IF files = filePayload(<<"b">>) THEN Wasm2 ELSE Wasm1

PageCompileOutcomes(c) ==
    {Throws("startThrows", StackRangeError, <<"", "">>),
     Exits(0, EmittedTree(ArtifactOf(c.files)), <<"", "">>),
     Exits(1, EmittedTree(ArtifactOf(c.files)), <<"hello", "main.zig:1:1: error">>)}
PageRunOutcomes ==
    {Throws("startThrows", GuestTrap, <<"hello", "panic">>),
     Exits(3, NullNode, <<"hello", "">>)}

\* the page mounted with its two workers
Init ==
    /\ driven = "both"
    /\ zig = FreshZigWorker
    /\ zigInbox = <<>>
    /\ runner = FreshRunnerWorker
    /\ runnerInbox = <<>>
    /\ nextId = 1
    /\ faults = 0
    /\ host = MountedHost
    /\ zigOutbox = <<>>
    /\ runnerOutbox = <<>>
    /\ turn = Turn("init", NoRequest, NotThrown, NoOutcome)
    /\ fs = NoJob
    /\ assets = FreshAssets

Next ==
    \/ HostAssetsReady
    \/ \E created \in BOOLEAN, files \in StarterFiles : HandleRun(created, files)
    \/ \E created \in BOOLEAN : HandleStop(created)
    \/ HandleResetWorkspace
    \/ HostCompileMessage
    \/ HostCompileFault
    \/ HostRunnerMessage
    \/ HostRunnerFault
    \/ \E created \in BOOLEAN : HostLifecycleEffect(created)
    \/ ZigMessage
    \/ \E error \in PageFaultErrors : ZigError(error)
    \/ \E c \in zig.inFlight, outcome \in PageStdlibOutcomes : ZigResumeStdlib(c, outcome)
    \/ \E c \in zig.inFlight : \E outcome \in PageCompileOutcomes(c) :
           ZigResumeInstantiate(c, outcome)
    \/ RunnerMessage
    \/ \E error \in PageFaultErrors : RunnerError(error)
    \/ \E c \in runner.inFlight, outcome \in PageRunOutcomes : RunnerResume(c, outcome)

Spec == Init /\ [][Next]_vars

\* the page as in Spec, with a source that is edited between clicks (handleContentChange,
\* ZigPlayground.tsx:617-620, and handleResetWorkspace, 686-692)
EditorNext ==
    \/ HostAssetsReady
    \/ \E created \in BOOLEAN, files \in EditorFiles : HandleRun(created, files)
    \/ \E created \in BOOLEAN : HandleStop(created)
    \/ HandleResetWorkspace
    \/ HostCompileMessage
    \/ HostCompileFault
    \/ HostRunnerMessage
    \/ HostRunnerFault
    \/ \E created \in BOOLEAN : HostLifecycleEffect(created)
    \/ ZigMessage
    \/ \E error \in PageFaultErrors : ZigError(error)
    \/ \E c \in zig.inFlight, outcome \in PageStdlibOutcomes : ZigResumeStdlib(c, outcome)
    \/ \E c \in zig.inFlight : \E outcome \in PageCompileOutcomes(c) :
           ZigResumeInstantiate(c, outcome)
    \/ RunnerMessage
    \/ \E error \in PageFaultErrors : RunnerError(error)
    \/ \E c \in runner.inFlight, outcome \in PageRunOutcomes : RunnerResume(c, outcome)

EditorSpec == Init /\ [][EditorNext]_vars

\* the characters of the paths that are normalized
PathAlphabet == {"a", "/", ".", "\\", " "}
PathStrings == UNION {[1..n -> PathAlphabet] : n \in 0..MaxPathLen}
\* spec.md section 8: "/app/src/../main.zig"
ExamplePath ==
    <<"/", "a", "p", "p", "/", "s", "r", "c", "/", ".", ".", "/", "m", "a", "i", "n", ".",
      "z", "i", "g">>
\* the paths given to normalizeEntryPath: short strings, the same behind the legacy
\* prefix, and the example
PathInputs == PathStrings \cup {LEGACY_APP_PREFIX \o s : s \in PathStrings} \cup {ExamplePath}

\* the entries of the file lists given to hydrateAppDirectory; file.path || '' and
\* file.contents ?? '' make the empty string of a missing field
EntryPaths ==
    {<<"a">>, <<"a", "/", "b">>, <<"/", "a", "p", "p", "/", "c">>, <<"a", "\\", "b">>, <<>>}
FileEntries ==
    {FilePayload(path, <<"x">>, FALSE) : path \in EntryPaths}
    \cup {FilePayload(path, <<"é", "x">>, TRUE) : path \in EntryPaths}
FileLists == UNION {[1..n -> FileEntries] : n \in 0..MaxFiles}

\* the trees loadStdlibTree can have kept: lib/std/std.zig and lib/c.h of an archive, and
\* other contents
StdlibTree ==
    TreeMap((<<"s", "t", "d">> :> TreeMap(<<"s">> :> TreeBytes(<<1>>)))
                @@ (<<"c">> :> TreeBytes(<<2>>)))
HeaderOnlyTree == TreeMap(<<"c">> :> TreeBytes(<<2>>))
StdlibTrees ==
    {StdlibTree,
     HeaderOnlyTree,
     TreeMap(<<"s", "t", "d">> :> TreeMap(<<>>)),
     TreeMap((<<"h">> :> TreeBytes(<<3>>)) @@ (<<"c">> :> TreeMap(<<"s">> :> TreeBytes(<<1>>))))}

BuilderInit ==
    /\ driven = "builder"
    /\ zig = FreshZigWorker
    /\ zigInbox = <<>>
    /\ runner = FreshRunnerWorker
    /\ runnerInbox = <<>>
    /\ nextId = 1
    /\ faults = 0
    /\ host = MountedHost
    /\ zigOutbox = <<>>
    /\ runnerOutbox = <<>>
    /\ turn = Turn("init", NoRequest, NotThrown, NoOutcome)
    /\ \/ \E path \in PathInputs : fs = [NoJob EXCEPT !.job = "normalize", !.path = path]
       \/ \E path \in PathInputs : fs = [NoJob EXCEPT !.job = "payload", !.path = path]
       \/ \E files \in FileLists :
              fs = [NoJob EXCEPT !.job = "hydrate", !.files = files,
                                 !.cachedStdlibTree = HeaderOnlyTree]
    /\ assets = FreshAssets

BuilderNext ==
    \/ NormalizeEntryPath
    \/ MakeFilePayload
    \/ WorkersNormalize
    \/ HydrateInvocation
    \/ \E artifact \in {Wasm1} : GuestWrites(artifact)

BuilderSpec == BuilderInit /\ [][BuilderNext]_vars

\* the calls of writeFile that one hydrateAppDirectory makes, one at a time; the paths
\* share directories, and one is a directory of another
WritePaths ==
    {<<"a">>, <<"a", "/", "b">>, <<"a", "/", "c">>, <<"a", "/", "b", "/", "c">>}
WriteLists ==
    UNION {[1..n -> {FilePayload(path, <<"x">>, readOnly) :
                         path \in WritePaths, readOnly \in {FALSE}}] : n \in 0..MaxFiles}

WriteInit ==
    /\ driven = "writer"
    /\ zig = FreshZigWorker
    /\ zigInbox = <<>>
    /\ runner = FreshRunnerWorker
    /\ runnerInbox = <<>>
    /\ nextId = 1
    /\ faults = 0
    /\ host = MountedHost
    /\ zigOutbox = <<>>
    /\ runnerOutbox = <<>>
    /\ turn = Turn("init", NoRequest, NotThrown, NoOutcome)
    /\ assets = FreshAssets
    /\ \E files \in WriteLists :
           fs = [NoJob EXCEPT !.job = "write", !.files = files,
                              !.heap = <<DirectoryNode(<<>>)>>]

WriteNext == WriteFileCall

WriteSpec == WriteInit /\ [][WriteNext]_vars

\* invocations of the compiler over one kept standard-library tree, with what their
\* guests do in their mounts
StdlibInit ==
    /\ driven = "stdlib"
    /\ zig = FreshZigWorker
    /\ zigInbox = <<>>
    /\ runner = FreshRunnerWorker
    /\ runnerInbox = <<>>
    /\ nextId = 1
    /\ faults = 0
    /\ host = MountedHost
    /\ zigOutbox = <<>>
    /\ runnerOutbox = <<>>
    /\ turn = Turn("init", NoRequest, NotThrown, NoOutcome)
    /\ assets = FreshAssets
    /\ \E tree \in StdlibTrees, files \in {<<>>, filePayload(<<"x">>)} :
           fs = [NoJob EXCEPT !.job = "hydrate", !.files = files, !.cachedStdlibTree = tree]

StdlibNext ==
    \/ HydrateInvocation
    \/ \E artifact \in {Wasm1} : GuestWrites(artifact)
    \/ \E create \in BOOLEAN, name \in {<<"c">>, <<"h">>, <<"s", "t", "d">>} :
           GuestChangesStdlib(create, name)

StdlibSpec == StdlibInit /\ [][StdlibNext]_vars

\* one context that calls the asset library, with the answers of the network
AssetInit ==
    /\ driven = "assets"
    /\ zig = FreshZigWorker
    /\ zigInbox = <<>>
    /\ runner = FreshRunnerWorker
    /\ runnerInbox = <<>>
    /\ nextId = 1
    /\ faults = 0
    /\ host = MountedHost
    /\ zigOutbox = <<>>
    /\ runnerOutbox = <<>>
    /\ turn = Turn("init", NoRequest, NotThrown, NoOutcome)
    /\ fs = NoJob
    /\ assets = FreshAssets

AssetNext ==
    \/ \E kind \in WasmAssetKinds : CallFetchWasmAsset(kind)
    \/ CallGetZigStdlibDirectory
    \/ CallLoadZigModule
    \/ EvictModule
    \/ \E f \in assets.inFlight, ok \in BOOLEAN : FetchSettles(f, ok)
    \/ \E ok \in BOOLEAN : HydrationSettles(ok)

AssetSpec == AssetInit /\ [][AssetNext]_vars

\* the components of one page that warm the assets, with the answers of the network
WarmInit ==
    /\ driven = "warm"
    /\ zig = FreshZigWorker
    /\ zigInbox = <<>>
    /\ runner = FreshRunnerWorker
    /\ runnerInbox = <<>>
    /\ nextId = 1
    /\ faults = 0
    /\ host = MountedHost
    /\ zigOutbox = <<>>
    /\ runnerOutbox = <<>>
    /\ turn = Turn("init", NoRequest, NotThrown, NoOutcome)
    /\ fs = NoJob
    /\ assets = FreshAssets

WarmNext ==
    \/ \E onUpdate \in Listeners \cup {"none"}, throws \in BOOLEAN :
           CallWarmZigAssets(onUpdate, throws)
    \/ \E f \in assets.inFlight, ok \in BOOLEAN : WarmFetchSettles(f, ok)
    \/ \E ok \in BOOLEAN : WarmHydrationSettles(ok)

WarmSpec == WarmInit /\ [][WarmNext]_vars

\* one compile worker over a long run of compilations that succeed, with the uncaught
\* stack-overflow errors its error listener recovers from
RefreshInit ==
    /\ driven = "refresh"
    /\ zig = FreshZigWorker
    /\ zigInbox = <<>>
    /\ runner = FreshRunnerWorker
    /\ runnerInbox = <<>>
    /\ nextId = 1
    /\ faults = 0
    /\ host = MountedHost
    /\ zigOutbox = <<>>
    /\ runnerOutbox = <<>>
    /\ turn = Turn("init", NoRequest, NotThrown, NoOutcome)
    /\ fs = NoJob
    /\ assets = FreshAssets

\* the call that has waited longest at its await: the calls await the same promises,
\* whose continuations run in the order they were registered
Oldest(c) == \A other \in zig.inFlight : other.stage = c.stage => c.id <= other.id

RefreshNext ==
    \/ EnvCompileWhenIdle
    \/ ZigError(StackRangeError)
    \/ \E c \in zig.inFlight : Oldest(c) /\ ZigResumeStdlib(c, Suspends)
    \/ \E c \in zig.inFlight :
           Oldest(c) /\ ZigResumeInstantiate(c, Exits(0, EmittedTree(Wasm1), <<"", "">>))

RefreshSpec == RefreshInit /\ [][RefreshNext]_vars

\* the executions the code's scheduling completes: an await of a platform promise
\* settles, and the turn that resumes the pipeline is taken
WorkerFairness ==
    /\ WF_vars(\E c \in zig.inFlight, outcome \in StdlibOutcomes : ZigResumeStdlib(c, outcome))
    /\ WF_vars(\E c \in zig.inFlight : \E outcome \in CompileOutcomes(c) :
                   ZigResumeInstantiate(c, outcome))
    /\ WF_vars(\E c \in runner.inFlight, outcome \in RunOutcomes : RunnerResume(c, outcome))

WorkerLiveSpec == WorkerSpec /\ WorkerFairness

-----------------------------------------------------------------------------
(* Vocabulary of the properties *)

Range(seq) == {seq[i] : i \in 1..Len(seq)}
Ids(requests) == {requests[i].id : i \in 1..Len(requests)}
InFlightIds(w) == {c.id : c \in w.inFlight}
CountType(posted, type) == Cardinality({i \in 1..Len(posted) : posted[i].type = type})
ZigResumeHandlers == {"zig-resume-stdlib", "zig-resume-instantiate"}
ZigListenerHandlers == {"zig-error", "zig-unhandledrejection"}
ZigHandlers == {"zig-message", "zig-messageerror"} \cup ZigListenerHandlers \cup ZigResumeHandlers
RunnerListenerHandlers == {"runner-error", "runner-unhandledrejection"}

\* a call of handleCompile / handleRun returned in this step
ZigCompleted == \E c \in zig.inFlight : c.id \notin InFlightIds(zig')
RunnerCompleted == \E c \in runner.inFlight : c.id \notin InFlightIds(runner')

\* the well-formed requests of spec section 6
WellFormedCompile(p) ==
    p.isObject /\ p.type = "compile" /\ p.filesIsArray /\ p.entryPathIsString
WellFormedRun(p) == p.isObject /\ p.type = "run" /\ p.wasmIsArrayBuffer

\* the error shapes of spec section 4.5
StackExhaustionShaped(e) ==
    /\ e.thrown /\ e.isError
    /\ \/ e.name \in {"RangeError", "InternalError"}
       \/ e.message \in {"too much recursion", "Maximum call stack size exceeded"}

-----------------------------------------------------------------------------
(* C1 *)

\* C1: in each worker at most one request is being executed at any instant: no call of
\* handleCompile (handleRun) starts before the previous one has returned, whatever
\* the interleaving of messages, completions and fault-listener events.
C1_AtMostOneExecution ==
    /\ Cardinality(zig.inFlight) <= 1
    /\ Cardinality(runner.inFlight) <= 1

-----------------------------------------------------------------------------
(* C2 *)

\* requests a worker accepted and then dropped without executing them
ZigDiscarded(z) == Range(z.accepted) \ (Range(z.started) \cup Ids(z.compilationQueue))
RunnerDiscarded(r) == Range(r.accepted) \ (Range(r.started) \cup Ids(r.runQueue))

\* the requests that arrived while the request id was in flight: identities grow with
\* arrival, and a request starts either on arrival or as the newest one pending
ArrivedDuring(accepted, id) == {j \in Range(accepted) : j > id}
Newest(ids) == CHOOSE j \in ids : \A k \in ids : k <= j

C2_Zig ==
    /\ (turn'.handler \in ZigResumeHandlers /\ ZigCompleted)
        => LET arrived == ArrivedDuring(zig.accepted, turn'.request.id)
           IN  arrived # {}
                   => /\ zig'.started = Append(zig.started, Newest(arrived))
                      /\ zig'.compilationQueue = <<>>
    /\ ZigDiscarded(zig) \subseteq ZigDiscarded(zig')
    /\ Len(zig'.started) <= Len(zig'.accepted)

C2_Runner ==
    /\ (turn'.handler = "runner-resume" /\ RunnerCompleted)
        => LET arrived == ArrivedDuring(runner.accepted, turn'.request.id)
           IN  arrived # {}
                   => /\ runner'.started = Append(runner.started, Newest(arrived))
                      /\ runner'.runQueue = <<>>
    /\ RunnerDiscarded(runner) \subseteq RunnerDiscarded(runner')
    /\ Len(runner'.started) <= Len(runner'.accepted)

\* C2: if requests arrived at a worker while a request was in flight, then in the step
\* in which that request completes exactly one further execution starts, it is for the
\* most recently arrived of them, and the pending list is empty afterwards; a request
\* dropped from the list is never executed, and no more executions start than
\* requests were accepted.
C2_LatestPendingRunsNext == [][C2_Zig /\ C2_Runner]_vars

-----------------------------------------------------------------------------
(* C3 *)

\* every request the worker accepted has been executed, or dropped from the pending list
\* after a later request arrived
ZigAllServed ==
    \A id \in Range(zig.accepted) :
        \/ id \in Range(zig.started)
        \/ id \in ZigDiscarded(zig) /\ ArrivedDuring(zig.accepted, id) # {}
RunnerAllServed ==
    \A id \in Range(runner.accepted) :
        \/ id \in Range(runner.started)
        \/ id \in RunnerDiscarded(runner) /\ ArrivedDuring(runner.accepted, id) # {}

C3_StartsNewestOnCompletion ==
    /\ (ZigCompleted /\ zig.compilationQueue # <<>>)
        => zig.compilationQueue[Len(zig.compilationQueue)].id \in Range(zig'.started)
    /\ (RunnerCompleted /\ runner.runQueue # <<>>)
        => runner.runQueue[Len(runner.runQueue)].id \in Range(runner'.started)

\* C3: when every started execution terminates, then after every moment there comes a
\* moment at which each request accepted so far has been executed or dropped from the
\* pending list after a later request arrived (so the last accepted one is executed),
\* and the turn that completes an execution starts the newest pending request.
C3_EveryRequestServed ==
    /\ []<>(ZigAllServed /\ RunnerAllServed)
    /\ [][C3_StartsNewestOnCompletion]_vars

\* C3 witness: two requests were accepted while the first was in flight, the older of
\* them was dropped, the newer one was executed, and nothing is left to do.
C3_Witness ==
    /\ runner.accepted = <<1, 2, 3>>
    /\ runner.started = <<1, 3>>
    /\ runner.inFlight = {}
    /\ runner.runQueue = <<>>

-----------------------------------------------------------------------------
(* C4 *)

C4_Zig ==
    (turn'.handler \in ZigResumeHandlers /\ StackExhaustionShaped(turn'.outcome.error))
        => /\ CountType(zig'.posted, "fatal-error") = 1
           /\ zig'.zigModulePromise = "null"

C4_Runner ==
    (turn'.handler = "runner-resume" /\ StackExhaustionShaped(turn'.outcome.error))
        => CountType(runner'.posted, "fatal-error") = 1

\* C4: when a stack-exhaustion-shaped error is thrown during the compile pipeline or
\* the run pipeline, the worker posts exactly one fatal-error message for it and the
\* compiled-module cache is empty afterwards.
C4_PipelineStackOverflowIsFatal == [][C4_Zig /\ C4_Runner]_vars

-----------------------------------------------------------------------------
(* C5 *)

IsDiagnostic(message, type) ==
    /\ message.type = type
    /\ message.message # ""
    /\ message.stdout = "" /\ message.stderr = ""

C5_Zig ==
    (turn'.handler \in ZigListenerHandlers /\ StackExhaustionShaped(turn'.error))
        => /\ Len(zig'.posted) = 2
           /\ IsDiagnostic(zig'.posted[1], "compile-error")
           /\ zig'.posted[2] = [FatalErrorMessage EXCEPT !.message = "stack-overflow"]
           /\ zig'.zigModulePromise = "null"
           /\ zig'.compilationCount = 0

C5_RunnerOriginal ==
    (turn'.handler \in RunnerListenerHandlers /\ StackExhaustionShaped(turn'.error))
        => /\ Len(runner'.posted) = 2
           /\ IsDiagnostic(runner'.posted[1], "run-error")
           /\ runner'.posted[2].type = "fatal-error"
           /\ runner'.posted[2].message = "stack-overflow"

C5_RunnerAmended ==
    (turn'.handler \in RunnerListenerHandlers /\ StackExhaustionShaped(turn'.error))
        => /\ Len(runner'.posted) = 1
           /\ IsDiagnostic(runner'.posted[1], "run-error")
           /\ UNCHANGED <<runner.isRunning, runner.runQueue, runner.inFlight>>

-----------------------------------------------------------------------------
(* C9 *)

\* a file, not a directory, sits at the fixed emission path of the project tree
FileAtEmitPath(tree) ==
    /\ EMIT_WASM_PATH \in DOMAIN tree.contents
    /\ tree.contents[EMIT_WASM_PATH].kind = "file"

\* the turn in which a compilation ran to completion, and the response posted for it
CompilationRanToCompletion ==
    turn'.handler = "zig-resume-instantiate" /\ turn'.outcome.kind = "exit"

C9_Classified(exitMessagePrefix) ==
    CompilationRanToCompletion
        => LET outcome == turn'.outcome
               response == zig'.posted[1]
           IN  /\ outcome.exitCode # 0
                   => /\ response.type = "compile-error"
                      /\ response.message = exitMessagePrefix \o ToString(outcome.exitCode)
                      /\ <<response.stdout, response.stderr>> = outcome.stdio
               /\ (outcome.exitCode = 0 /\ ~FileAtEmitPath(outcome.tree))
                   => /\ response.type = "compile-error"
                      /\ response.message = "Compiled artifact missing at main.wasm"
                      /\ response.message # exitMessagePrefix \o ToString(outcome.exitCode)
               /\ (outcome.exitCode = 0 /\ FileAtEmitPath(outcome.tree))
                   => /\ response.type = "compile-success"
                      /\ response.wasm = outcome.tree.contents[EMIT_WASM_PATH].data

\* C9 as stated: exit code N # 0 gives compile-error with the message
\* 'compiler exited with code N' and the captured stdio; exit code 0 without a file at
\* main.wasm gives the distinct 'artifact missing' compile-error; exit code 0 with a
\* file there gives compile-success with that file's bytes.
C9_CompilerExitedMessage == [][C9_Classified("compiler exited with code ")]_vars

\* C9 amended: the same three-way classification, the message of the first case being
\* 'Zig exited with code N'.
C9_ZigExitedMessage == [][C9_Classified("Zig exited with code ")]_vars

\* C9 witness: a compilation exited with code 3 although a file was at main.wasm, and
\* the compile-error response carries the exit message and the captured stdio.
C9_Witness ==
    /\ turn.handler = "zig-resume-instantiate"
    /\ turn.outcome.kind = "exit"
    /\ turn.outcome.exitCode = 3
    /\ FileAtEmitPath(turn.outcome.tree)
    /\ zig.posted[1].type = "compile-error"
    /\ zig.posted[1].message = "Zig exited with code 3"
    /\ zig.posted[1].stderr = "main.zig:1:1: error"

-----------------------------------------------------------------------------
(* C10 *)

ZigUntouched ==
    /\ zig'.compilationQueue = zig.compilationQueue
    /\ zig'.isCompiling = zig.isCompiling
    /\ zig'.zigModulePromise = zig.zigModulePromise
    /\ zig'.compilationCount = zig.compilationCount
    /\ zig'.accepted = zig.accepted
    /\ zig'.started = zig.started
    /\ zig'.inFlight = zig.inFlight

RunnerUntouched ==
    /\ runner'.runQueue = runner.runQueue
    /\ runner'.isRunning = runner.isRunning
    /\ runner'.accepted = runner.accepted
    /\ runner'.started = runner.started
    /\ runner'.inFlight = runner.inFlight

C10_Zig ==
    (\/ turn'.handler = "zig-message" /\ ~WellFormedCompile(turn'.request.data)
     \/ turn'.handler = "zig-messageerror")
        => /\ Len(zig'.posted) = 1
           /\ zig'.posted[1].type = "compile-error"
           /\ ZigUntouched

C10_Runner ==
    (\/ turn'.handler = "runner-message" /\ ~WellFormedRun(turn'.request.data)
     \/ turn'.handler = "runner-messageerror")
        => /\ Len(runner'.posted) = 1
           /\ runner'.posted[1].type = "run-error"
           /\ RunnerUntouched

\* C10: a message that is not a well-formed request is answered with exactly one error
\* response (compile-error, run-error), is neither enqueued nor executed, and leaves the
\* pending list, the busy flag, the module cache and the compilation counter as they
\* were.
C10_MalformedRejected == [][C10_Zig /\ C10_Runner]_vars

\* C10 witness: a malformed message reached the compile worker while a compilation
\* was in flight with the module cached, and was answered with a compile-error.
C10_Witness ==
    /\ turn.handler = "zig-message"
    /\ ~WellFormedCompile(turn.request.data)
    /\ turn.request.data.type = "compile"
    /\ zig.inFlight # {}
    /\ zig.zigModulePromise = "promise"
    /\ zig.posted[1].type = "compile-error"

-----------------------------------------------------------------------------
(* C6 *)

\* the page posted a request to a worker in this step
PostedToZig == Len(zigInbox') > Len(zigInbox)
PostedToRunner == Len(runnerInbox') > Len(runnerInbox)

\* the workers that are alive belong to a generation whose fatal-error notification
\* the page has handled
FaultedWorkersAlive(h) == h.workersAlive /\ h.effectGeneration \in h.faulted

C6_Step ==
    /\ (turn'.handler = "host-compile-message" /\ turn'.message.type = "fatal-error"
            /\ turn'.message.message = "stack-overflow")
        => host'.workerGeneration = host.workerGeneration + 1
    /\ FaultedWorkersAlive(host) /\ FaultedWorkersAlive(host')
        => ~PostedToZig /\ ~PostedToRunner

\* C6: handling a fatal-error notification increments the worker generation, and from
\* then on no compile or run request is posted to a worker of the generation the
\* notification came from.
C6_FaultedWorkersNeverReused == [][C6_Step]_vars

-----------------------------------------------------------------------------
(* C7 *)

\* the workers that are alive were created for an earlier generation than the current
StaleWorkersAlive(h) == h.workersAlive /\ h.effectGeneration < h.workerGeneration

C7_Step ==
    /\ host'.workerGeneration >= host.workerGeneration
    /\ (StaleWorkersAlive(host)
            /\ turn'.handler \in {"host-compile-message", "host-runner-message"})
        => /\ host'.compileState = host.compileState
           /\ host'.runState = host.runState
           /\ ~PostedToRunner

\* C7: the generation counter never decreases, and once it has been bumped no response
\* of a worker of an earlier generation changes the page's compile state or run state
\* or makes the page post a run request.
C7_StaleResponsesIgnored == [][C7_Step]_vars

-----------------------------------------------------------------------------
(* C8 *)

C8_Step ==
    /\ (CompilationRanToCompletion /\ turn'.outcome.exitCode # 0)
        => CountType(zig'.posted, "compile-success") = 0
    /\ (turn'.handler \in ZigHandlers /\ CountType(zig'.posted, "compile-success") > 0)
        => CompilationRanToCompletion /\ turn'.outcome.exitCode = 0
    /\ PostedToRunner
        => /\ turn'.handler = "host-compile-message"
           /\ turn'.message.type = "compile-success"
           /\ runnerInbox'[Len(runnerInbox')].data.wasm = turn'.message.wasm

\* C8: a compilation in which the compiler exits with a nonzero code posts no
\* compile-success response, a compile-success response comes from an exit with code 0
\* only, and the page posts a run request only in the step that handles a
\* compile-success response, for the bytes of that response.
C8_RunOnlyAfterCompileSuccess == [][C8_Step]_vars

\* C8 witness: a compilation exited with a nonzero code although main.wasm was in the
\* tree, the page has handled its compile-error response, and no run request was posted.
C8_Witness ==
    /\ turn.handler = "host-compile-message"
    /\ turn.message.type = "compile-error"
    /\ turn.message.message = "Zig exited with code 1"
    /\ host.compileState = "failed"
    /\ runnerInbox = <<>>
    /\ runner.accepted = <<>>

-----------------------------------------------------------------------------
(* C11 *)

\* the requests whose call of handleCompile / handleRun has returned
ZigReturned(z) == Range(z.started) \ InFlightIds(z)
RunnerReturned(r) == Range(r.started) \ InFlightIds(r)

\* the per-request responses among the messages of a turn
PerRequest(posted, types) == Cardinality({i \in 1..Len(posted) : posted[i].type \in types})

\* the turns that dispatch requests from the queue or resume their pipelines
ZigPipelineTurn ==
    \/ turn'.handler = "zig-message" /\ WellFormedCompile(turn'.request.data)
    \/ turn'.handler \in ZigResumeHandlers
RunnerPipelineTurn ==
    \/ turn'.handler = "runner-message" /\ WellFormedRun(turn'.request.data)
    \/ turn'.handler = "runner-resume"

C11_Zig ==
    ZigPipelineTurn
        => LET returned == ZigReturned(zig') \ ZigReturned(zig)
           IN  /\ PerRequest(zig'.posted, {"compile-success", "compile-error"})
                      = Cardinality(returned)
               /\ (returned # {} /\ zig'.isCompiling)
                      => /\ Len(zig'.started) > Len(zig.started)
                         /\ zig'.started[Len(zig'.started)] \in InFlightIds(zig')
               /\ (turn'.handler \in ZigResumeHandlers /\ turn'.outcome.error.thrown)
                      => /\ zig'.posted[1].type = "compile-error"
                         /\ <<zig'.posted[1].stdout, zig'.posted[1].stderr>> = turn'.outcome.stdio
               /\ (turn'.handler = "zig-message" /\ turn'.request.data.filesHaveNull
                       /\ turn'.request.id \in returned)
                      => zig'.posted[Len(zig'.posted)].type = "compile-error"

C11_Runner(carried) ==
    RunnerPipelineTurn
        => LET returned == RunnerReturned(runner') \ RunnerReturned(runner)
           IN  /\ PerRequest(runner'.posted, {"run-success", "run-error"}) = Cardinality(returned)
               /\ (returned # {} /\ runner'.isRunning)
                      => /\ Len(runner'.started) > Len(runner.started)
                         /\ runner'.started[Len(runner'.started)] \in InFlightIds(runner')
               /\ (turn'.handler = "runner-resume" /\ turn'.outcome.error.thrown)
                      => /\ runner'.posted[1].type = "run-error"
                         /\ \A k \in carried :
                                <<runner'.posted[1].stdout, runner'.posted[1].stderr>>[k]
                                    = turn'.outcome.stdio[k]
               /\ (turn'.handler = "runner-message" /\ turn'.request.data.filesHaveNull
                       /\ turn'.request.id \in returned)
                      => runner'.posted[Len(runner'.posted)].type = "run-error"

\* C11 as stated: a turn posts exactly one per-request response for each request whose
\* handler returns in it, whether its pipeline returned or threw at hydration, asset
\* load, instantiation or start; an error response carries the stdout and the stderr
\* captured before the failure; and the busy flag is clear afterwards unless the same
\* turn dispatched the next request.
C11_ErrorCarriesStdio == [][C11_Zig /\ C11_Runner({1, 2})]_vars

\* C11 amended: the same, except that a run-error response carries the captured stderr
\* only; a compile-error response carries both the captured stdout and stderr.
C11_OneResponsePerRequest == [][C11_Zig /\ C11_Runner({2})]_vars

\* C11 witness: a program wrote to stdout and stderr and then threw in start; its
\* request was answered with a run-error that carries the stderr, and the run worker is
\* idle again.
C11_Witness ==
    /\ turn.handler = "runner-resume"
    /\ turn.outcome.kind = "startThrows"
    /\ turn.outcome.stdio = <<"hello", "panic">>
    /\ Len(runner.posted) = 1
    /\ runner.posted[1].type = "run-error"
    /\ runner.posted[1].stderr = "panic"
    /\ ~runner.isRunning
    /\ runner.inFlight = {}

-----------------------------------------------------------------------------
(* C12 *)

\* a pipeline stopped in this turn with an error that is not classified as stack
\* exhaustion
ZigOrdinaryFailure ==
    /\ turn'.handler \in ZigResumeHandlers
    /\ turn'.outcome.error.thrown
    /\ ~isStackOverflow(turn'.outcome.error)
RunnerOrdinaryFailure ==
    /\ turn'.handler = "runner-resume"
    /\ turn'.outcome.error.thrown
    /\ ~isStackOverflow(turn'.outcome.error)

C12_Step ==
    /\ ZigOrdinaryFailure
        => /\ zig'.posted[1].type = "compile-error"
           /\ CountType(zig'.posted, "fatal-error") = 0
           /\ CountType(zig'.posted, "compile-error") + CountType(zig'.posted, "compile-success")
                  = Cardinality(ZigReturned(zig') \ ZigReturned(zig))
    /\ RunnerOrdinaryFailure
        => /\ runner'.posted[1].type = "run-error"
           /\ \A i \in 1..Len(runner'.posted) : runner'.posted[i].type \in {"run-error", "run-success"}
           /\ Len(runner'.posted) = Cardinality(RunnerReturned(runner') \ RunnerReturned(runner))
    /\ (turn'.handler \in {"host-compile-message", "host-runner-message"}
            /\ turn'.message.type \in {"compile-error", "run-error"})
        => /\ host'.workerGeneration = host.workerGeneration
           /\ host'.zigWorkerRef = host.zigWorkerRef
           /\ host'.runnerWorkerRef = host.runnerWorkerRef
           /\ host'.workersAlive = host.workersAlive
           /\ UNCHANGED <<zig, runner, zigInbox, runnerInbox>>
    /\ (turn'.handler = "zig-message" /\ WellFormedCompile(turn'.request.data)
            /\ ~zig.isCompiling)
        => zig'.started = Append(zig.started, turn'.request.id)
    /\ (turn'.handler = "runner-message" /\ WellFormedRun(turn'.request.data)
            /\ ~runner.isRunning)
        => runner'.started = Append(runner.started, turn'.request.id)

-----------------------------------------------------------------------------
(* C13 *)

C13_Step ==
    turn'.handler = "runner-resume"
        => LET outcome == turn'.outcome
               response == runner'.posted[1]
           IN  /\ outcome.kind = "exit"
                   => /\ ~outcome.error.thrown
                      /\ response.type = "run-success"
                      /\ response.exitCode = outcome.exitCode
                      /\ <<response.stdout, response.stderr>> = outcome.stdio
               /\ response.type = "run-error" <=> outcome.error.thrown
               /\ response.type = "run-error" => response.exitCode = NoExitCode

\* C13: when the executed program exits with code N, zero or not, without throwing, the
\* run worker answers the request with run-success and exitCode = N; the answer to an
\* executed request is run-error exactly when an error was thrown.
C13_ExitCodeIsSuccess == [][C13_Step]_vars

\* C13 witness: a program exited with code 3 and its request was answered with
\* run-success carrying exit code 3.
C13_Witness ==
    /\ turn.handler = "runner-resume"
    /\ turn.outcome.kind = "exit"
    /\ turn.outcome.exitCode = 3
    /\ runner.posted[1].type = "run-success"
    /\ runner.posted[1].exitCode = 3

-----------------------------------------------------------------------------
(* C14 *)

\* the page handles a compile-success response in this step
HandlesCompileSuccess ==
    turn'.handler = "host-compile-message" /\ turn'.message.type = "compile-success"

C14_PostsOne ==
    /\ HandlesCompileSuccess
        => /\ Len(runnerInbox') = Len(runnerInbox) + 1
           /\ runnerInbox'[Len(runnerInbox')].data.type = "run"
           /\ runnerInbox'[Len(runnerInbox')].data.wasm = turn'.message.wasm
    /\ PostedToRunner => HandlesCompileSuccess

C14_FilesOfProducer ==
    HandlesCompileSuccess
        => LET request == runnerInbox'[Len(runnerInbox')].data
           IN  ArtifactOf(request.files) = request.wasm

\* C14: each compile-success response the page handles makes it post exactly one run
\* request, with the artifact bytes of that response and the file list of the compile
\* request that produced the artifact; no other step posts a run request.
C14_RunRequestMatchesCompile == [][C14_PostsOne /\ C14_FilesOfProducer]_vars

\* the part of C14 that does not mention the file list
C14_OneRunPerSuccess == [][C14_PostsOne]_vars

-----------------------------------------------------------------------------
(* C15 *)

\* the UTF-8 encoding of the contents the file lists use
Utf8Of(contents) ==
    IF contents = <<"x">> THEN <<120>>
    ELSE IF contents = <<"é", "x">> THEN <<195, 169, 120>>
    ELSE <<>>

\* the normalized paths of a file list, entry by entry
NormalizedPaths(files) == [i \in 1..Len(files) |-> normalizeEntryPath(files[i].path)]

PairwiseDistinct(paths) == \A i, j \in 1..Len(paths) : i # j => paths[i] # paths[j]

\* p names a directory on the way to q
ProperPrefix(p, q) ==
    LET ps == SplitSlash(p)
        qs == SplitSlash(q)
    IN  Len(ps) < Len(qs) /\ SubSeq(qs, 1, Len(ps)) = ps

PrefixFree(paths) == \A i, j \in 1..Len(paths) : ~ProperPrefix(paths[i], paths[j])

\* the workspace tree of the invocation that has just been hydrated
JustHydrated == fs.job = "hydrate" /\ fs.invocations # <<>> /\ ~fs.wrote
Workspace == TreeAt(fs.heap, fs.invocations[Len(fs.invocations)].workspace)

\* the entry at index is read back by traversal, as a file with the entry's bytes
ReadsBack(index) ==
    LET file == getFileAtPath(Workspace, NormalizedPaths(fs.files)[index])
    IN  /\ file.kind = "file"
        /\ file.data = Utf8Of(fs.files[index].contents)

\* C15 as stated: for a file list whose normalized paths are pairwise distinct, after
\* hydrate every entry's path is reached by traversal from the root and the file found
\* there holds the UTF-8 encoding of the entry's contents.
C15_DistinctPathsReadBack ==
    (JustHydrated /\ PairwiseDistinct(NormalizedPaths(fs.files)))
        => \A i \in 1..Len(fs.files) : ReadsBack(i)

\* C15 amended: the same for a file list whose normalized paths are pairwise distinct
\* and none of which names a directory on the way to another.
C15_PrefixFreePathsReadBack ==
    (JustHydrated /\ PairwiseDistinct(NormalizedPaths(fs.files))
         /\ PrefixFree(NormalizedPaths(fs.files)))
        => \A i \in 1..Len(fs.files) : ReadsBack(i)

\* C15 witness: three entries with distinct paths, one in a subdirectory and one with
\* a two-byte character, were hydrated and are all read back.
C15_Witness ==
    /\ JustHydrated
    /\ Len(fs.files) = 3
    /\ fs.files[1].path = <<>>
    /\ fs.files[2].path = <<"a", "\\", "b">>
    /\ fs.files[2].contents = <<"é", "x">>
    /\ fs.files[3].path = <<"/", "a", "p", "p", "/", "c">>
    /\ PairwiseDistinct(NormalizedPaths(fs.files))
    /\ \A i \in 1..3 : ReadsBack(i)
    /\ getFileAtPath(Workspace, <<"a", "/", "b">>).data = <<195, 169, 120>>
    /\ getFileAtPath(Workspace, <<"c">>).kind = "file"
    /\ getFileAtPath(Workspace, MAIN_ZIG).kind = "file"

-----------------------------------------------------------------------------
(* C16 *)

\* the last entry of the list that normalizes to the path of the entry at index
LastWithPath(files, index) ==
    CHOOSE j \in index..Len(files) :
        /\ NormalizedPaths(files)[j] = NormalizedPaths(files)[index]
        /\ \A k \in (j + 1)..Len(files) : NormalizedPaths(files)[k] # NormalizedPaths(files)[index]

\* the file at the path of the entry at index is that of the last entry with that path
LaterEntryWins(index) ==
    LET later == fs.files[LastWithPath(fs.files, index)]
        file == getFileAtPath(Workspace, NormalizedPaths(fs.files)[index])
    IN  /\ file.kind = "file"
        /\ file.data = Utf8Of(later.contents)
        /\ file.readonly = later.readOnly

\* two entries of the list normalize to the path of the entry at index
Duplicated(files, index) ==
    \E j \in 1..Len(files) : j # index /\ NormalizedPaths(files)[j] = NormalizedPaths(files)[index]

\* C16 as stated: if two entries of the file list normalize to the same path, after
\* hydrate one file exists at that path and it holds the contents and the read-only
\* flag of the later entry.
C16_LaterEntryWins ==
    JustHydrated
        => \A i \in 1..Len(fs.files) : Duplicated(fs.files, i) => LaterEntryWins(i)

\* C16 amended: the same, provided that path names no directory on the way to the path
\* of another entry and no other entry's path names a directory on the way to it.
C16_LaterEntryWinsUnlessReplaced ==
    JustHydrated
        => \A i \in 1..Len(fs.files) :
               (/\ Duplicated(fs.files, i)
                /\ \A j \in 1..Len(fs.files) :
                       /\ ~ProperPrefix(NormalizedPaths(fs.files)[i], NormalizedPaths(fs.files)[j])
                       /\ ~ProperPrefix(NormalizedPaths(fs.files)[j], NormalizedPaths(fs.files)[i]))
                   => LaterEntryWins(i)

\* C16 witness: 'a\b' and then 'a/b' were given with different contents and flags, and
\* the one file at a/b is read-only and holds the contents of the second.
C16_Witness ==
    /\ JustHydrated
    /\ fs.files = <<FilePayload(<<"a", "\\", "b">>, <<"x">>, FALSE),
                    FilePayload(<<"a", "/", "b">>, <<"é", "x">>, TRUE)>>
    /\ getFileAtPath(Workspace, <<"a", "/", "b">>).data = <<195, 169, 120>>
    /\ getFileAtPath(Workspace, <<"a", "/", "b">>).readonly
    /\ DOMAIN Workspace.contents = {<<"a">>}
    /\ DOMAIN Workspace.contents[<<"a">>].contents = {<<"b">>}

-----------------------------------------------------------------------------
(* C17 *)

\* a non-empty relative path with '/' separators: no leading slash, no backslash, no
\* empty segment, no '.' or '..' segment
IsNormalForm(path) ==
    /\ Len(path) > 0
    /\ path[1] # "/"
    /\ \A i \in 1..Len(path) : path[i] # "\\"
    /\ \A i \in 1..Len(SplitSlash(path)) :
           SplitSlash(path)[i] \notin {<<>>, <<".">>, <<".", ".">>}

\* every piece of the input between separators is blank, '.' or '..'
NoSegmentRemains(path) ==
    LET pieces == SplitSlash(ReplaceBackslashes(path))
    IN  \A i \in 1..Len(pieces) : Trim(pieces[i]) \in {<<>>, <<".">>, <<".", ".">>}

\* C17: for every input path string normalizeEntryPath returns a non-empty relative
\* path with '/' separators, without leading slash, empty segment, '.' or '..'
\* segment; an input with no remaining segment gives 'main.zig', and
\* '/app/src/../main.zig' gives 'src/main.zig'.
C17_NormalForm ==
    (fs.job = "normalize" /\ fs.done)
        => /\ IsNormalForm(fs.normalized)
           /\ (NoSegmentRemains(fs.path) \/ fs.path = LEGACY_APP_PREFIX)
                  => fs.normalized = MAIN_ZIG
           /\ fs.path = ExamplePath
                  => fs.normalized = <<"s", "r", "c", "/", "m", "a", "i", "n", ".", "z", "i", "g">>

\* C17 witness: the example path has been normalized.
C17_Witness ==
    /\ fs.job = "normalize"
    /\ fs.done
    /\ fs.path = ExamplePath
    /\ fs.normalized = <<"s", "r", "c", "/", "m", "a", "i", "n", ".", "z", "i", "g">>

-----------------------------------------------------------------------------
(* C18 *)

\* a call of handleCompile began in this step
CompilationBegan == Len(zig'.started) > Len(zig.started)

C18_Discards ==
    (turn'.handler = "zig-message" /\ CompilationBegan
         /\ zig.compilationCount = MAX_COMPILATIONS_BEFORE_REFRESH - 1)
        => /\ zig'.compilationCount = 0
           /\ zig'.zigModulePromise = "null"

C18_Recompiles ==
    (turn'.handler = "zig-resume-stdlib" /\ zig.zigModulePromise = "null"
         /\ turn'.outcome.kind = "suspends")
        => /\ zig'.zigModulePromise = "promise"
           /\ \E c \in zig'.inFlight : c.id = turn'.request.id /\ c.loads

C18_CounterInRange == zig.compilationCount \in 0..(MAX_COMPILATIONS_BEFORE_REFRESH - 1)

C18_InstanceServesAtMost == zig.served <= MAX_COMPILATIONS_BEFORE_REFRESH

\* C18: the compilation that brings the counter to 50 discards the cached module and
\* resets the counter, and the next call of loadZigModule compiles the module anew;
\* between turns the counter is within 0..49; and no module instance is handed to more
\* than 50 compilations.
C18_PeriodicRefresh ==
    /\ [](C18_CounterInRange /\ C18_InstanceServesAtMost)
    /\ [][C18_Discards /\ C18_Recompiles]_vars

\* the parts of C18 about the counter and the discard
C18_CounterAndDiscard == [](C18_CounterInRange) /\ [][C18_Discards /\ C18_Recompiles]_vars

-----------------------------------------------------------------------------
(* C20 *)

\* the objects of one invocation's workspace tree and cache-scratch tree
ObjectsOf(heap, invocation) ==
    NodesAt(heap, invocation.workspace) \cup NodesAt(heap, invocation.cache)

\* no object belongs to the trees of two invocations
SharesNoNode ==
    \A i, j \in 1..Len(fs.invocations) :
        i < j => ObjectsOf(fs.heap, fs.invocations[i])
                     \cap ObjectsOf(fs.heap, fs.invocations[j]) = {}

\* the tree a first hydration of the list builds
FirstHydration(files) ==
    LET appDirectory == hydrateAppDirectory(NoObjects, files)
    IN  TreeAt(appDirectory.heap, appDirectory.addr)

\* an invocation hydrates: its workspace is the tree a first hydration of the list builds,
\* its cache-scratch tree is empty, the list is as it was, and the trees of the earlier
\* invocations are as they were
C20_HydrateStep ==
    turn'.handler = "hydrate" =>
        LET latest == fs'.invocations[Len(fs'.invocations)]
        IN  /\ TreeAt(fs'.heap, latest.workspace) = FirstHydration(fs.files)
            /\ TreeAt(fs'.heap, latest.cache) = DirectoryNode(<<>>)
            /\ fs'.files = fs.files
            /\ \A i \in 1..Len(fs.invocations) :
                  /\ fs'.invocations[i] = fs.invocations[i]
                  /\ TreeAt(fs'.heap, fs.invocations[i].workspace)
                         = TreeAt(fs.heap, fs.invocations[i].workspace)
                  /\ TreeAt(fs'.heap, fs.invocations[i].cache)
                         = TreeAt(fs.heap, fs.invocations[i].cache)

\* C20: hydrating a file list again yields a tree structurally equal to the one the first
\* hydration built, the trees of two invocations share no node, the input list is not
\* modified, and what was written into an invocation's workspace or cache-scratch tree is
\* in no tree of a later invocation.
C20_InvocationsIsolated == []SharesNoNode /\ [][C20_HydrateStep]_vars

\* two invocations hydrated the same list, and the guest of the first wrote the artifact
\* and a scratch file that the trees of the second do not have
C20_Witness ==
    /\ fs.job = "hydrate"
    /\ Len(fs.invocations) = 2
    /\ Len(fs.files) >= 2
    /\ ~fs.wrote
    /\ LET first == fs.invocations[1]
           second == fs.invocations[2]
       IN  /\ EMIT_WASM_PATH \in DOMAIN fs.heap[first.workspace].contents
           /\ <<"h">> \in DOMAIN fs.heap[first.cache].contents
           /\ EMIT_WASM_PATH \notin DOMAIN fs.heap[second.workspace].contents
           /\ fs.heap[second.cache].contents = <<>>

-----------------------------------------------------------------------------
(* C19 *)

\* the fetches of an asset that have not settled
InFlightOf(a, asset) == {f \in a.inFlight : f.asset = asset}

\* the slot that holds the promise of an asset's fetch
SlotOf(a, asset) ==
    IF asset = "stdlib" THEN a.stdlibArchivePromise ELSE a.wasmAssetPromises[asset]

\* one of the library's functions is called in this step, for this asset
Calls(asset) == assets'.calls > assets.calls /\ assets'.last.asset = asset

\* every fetch of the asset so far has failed
AllFailed(asset) ==
    /\ assets.issued[asset] > 0
    /\ ~assets.succeeded[asset]
    /\ InFlightOf(assets, asset) = {}

C19_OneFetchInFlight == \A asset \in Assets : Cardinality(InFlightOf(assets, asset)) <= 1

\* a call made while the asset's fetch is in flight fetches nothing and leaves in the
\* slot the promise of that fetch
C19_Shared ==
    \A asset \in Assets :
        (Calls(asset) /\ InFlightOf(assets, asset) # {})
            => /\ assets'.inFlight = assets.inFlight
               /\ SlotOf(assets', asset) = SlotOf(assets, asset)
               /\ SlotOf(assets, asset).state = "pending"
               /\ [asset |-> asset, fetch |-> SlotOf(assets, asset).fetch] \in assets.inFlight

\* once a fetch of the asset has succeeded no step fetches it again
C19_NoFetchAfterSuccess ==
    \A asset \in Assets :
        assets.succeeded[asset] => assets'.issued[asset] = assets.issued[asset]

\* a failed fetch leaves its slot empty, and the next call fetches again
C19_FailedFetchRetried ==
    \A asset \in Assets :
        /\ AllFailed(asset) => SlotOf(assets, asset).state = "none"
        /\ (Calls(asset) /\ AllFailed(asset))
               => assets'.issued[asset] = assets.issued[asset] + 1

\* a failed hydration leaves no tree and no promise, and the next call hydrates again
C19_FailedHydrationRetried ==
    LET failed == /\ assets.hydrations > 0
                  /\ assets.stdlibTreePromise.state # "pending"
                  /\ ~assets.cachedStdlibTree
    IN  /\ failed => assets.stdlibTreePromise.state = "none"
        /\ (Calls("stdlib") /\ failed) => assets'.hydrations = assets.hydrations + 1

\* C19: of each asset (compiler binary, language-server binary, standard-library
\* archive) at most one fetch is in flight and a call made meanwhile shares it; after a
\* fetch of it has succeeded no call fetches it again, a call after the discard of the
\* compiled module included; a failed fetch and a failed hydration of the standard library
\* are not kept, and the next call tries again.
C19_AssetsFetchedOnce ==
    /\ []C19_OneFetchInFlight
    /\ [][/\ C19_Shared
          /\ C19_NoFetchAfterSuccess
          /\ C19_FailedFetchRetried
          /\ C19_FailedHydrationRetried]_vars

\* the compiler binary was fetched once and its module is loaded again after a discard,
\* the fetch of the other binary failed and was tried again, and the archive, fetched
\* once, is hydrated a second time after a failed hydration
C19_Witness ==
    /\ assets.issued["zig"] = 1
    /\ assets.succeeded["zig"]
    /\ assets.evictions = 1
    /\ assets.zigModulePromise = "promise"
    /\ assets.issued["zls"] = 2
    /\ assets.issued["stdlib"] = 1
    /\ assets.hydrations = 2

-----------------------------------------------------------------------------
(* C21 *)

\* C21 as stated: while a worker is busy its pending list holds at most one request.
C21_AtMostOnePending ==
    /\ zig.isCompiling => Len(zig.compilationQueue) <= 1
    /\ runner.isRunning => Len(runner.runQueue) <= 1

\* the pending requests arrived after the latest start of an execution, and are kept in
\* the order of their arrival
ArrivedSinceStart(queue, started) ==
    \A i \in 1..Len(queue) :
        /\ started # <<>>
        /\ queue[i].id > started[Len(started)]
        /\ i < Len(queue) => queue[i].id < queue[i + 1].id

\* the turn in which an execution starts leaves the pending list empty
C21_StartEmptiesList ==
    /\ Len(zig'.started) > Len(zig.started) => zig'.compilationQueue = <<>>
    /\ Len(runner'.started) > Len(runner.started) => runner'.runQueue = <<>>

\* C21 amended: the pending list of a worker holds only requests that arrived since its
\* latest execution started, in the order of their arrival, and the start of an execution
\* empties it: the backlog is bounded by the arrivals during one execution.
C21_BacklogOfOneExecution ==
    /\ [](/\ ArrivedSinceStart(zig.compilationQueue, zig.started)
          /\ ArrivedSinceStart(runner.runQueue, runner.started))
    /\ [][C21_StartEmptiesList]_vars

\* two requests arrived while the compile worker was compiling a third, and both are
\* pending
C21_Witness ==
    /\ zig.isCompiling
    /\ Len(zig.compilationQueue) = 2
    /\ zig.started = <<1>>

-----------------------------------------------------------------------------
(* C22 *)

\* every file of a tree is flagged read-only
RECURSIVE AllReadOnly(_)
AllReadOnly(tree) ==
    IF tree.kind = "file" THEN tree.readonly
    ELSE \A name \in DOMAIN tree.contents : AllReadOnly(tree.contents[name])

\* C22: every file of the standard-library tree an invocation is presented with is
\* flagged read-only, and the tree presented to an invocation is the tree that was
\* presented to the invocation before it, whatever the guest of that invocation did in
\* its mounts.
C22_StdlibPresentedUnchanged ==
    \A k \in 1..Len(fs.invocations) :
        /\ AllReadOnly(fs.invocations[k].presented)
        /\ k > 1 => fs.invocations[k].presented = fs.invocations[k - 1].presented

\* the guest of the first invocation left its standard-library mount different from what
\* it was presented with, and a second invocation has been presented with its tree
C22_Witness ==
    /\ driven = "stdlib"
    /\ Len(fs.invocations) = 2
    /\ fs.invocations[1].presented.contents # <<>>
    /\ TreeAt(fs.heap, fs.invocations[1].stdlib) # fs.invocations[1].presented
    /\ TreeAt(fs.heap, fs.invocations[2].stdlib) = fs.invocations[2].presented

-----------------------------------------------------------------------------
(* C23 *)

\* C23 as stated: a step taken while a compilation is in flight changes neither the
\* cached module nor the compilation counter.
C23_NoWriteInFlight ==
    [][zig.inFlight # {} => /\ zig'.zigModulePromise = zig.zigModulePromise
                            /\ zig'.compilationCount = zig.compilationCount]_vars

\* a global listener classified its error as a stack overflow
ListenerRecovers ==
    /\ turn'.handler \in {"zig-error", "zig-unhandledrejection"}
    /\ isStackOverflow(turn'.error)

\* a compilation in flight resumed after the standard library and called loadZigModule
ModuleRequested == turn'.handler = "zig-resume-stdlib" /\ turn'.outcome.kind = "suspends"

\* the module promise of a compilation in flight was rejected
LoadRejected ==
    turn'.handler = "zig-resume-instantiate" /\ turn'.outcome.kind = "moduleRejected"

C23_CounterWrites ==
    zig'.compilationCount # zig.compilationCount
        => \/ CompilationBegan
           \/ ListenerRecovers /\ zig'.compilationCount = 0

C23_ModuleWrites ==
    zig'.zigModulePromise # zig.zigModulePromise
        => \/ CompilationBegan /\ zig'.compilationCount = 0 /\ zig'.zigModulePromise = "null"
           \/ ListenerRecovers /\ zig'.zigModulePromise = "null"
           \/ LoadRejected /\ zig'.zigModulePromise = "null"
           \/ ModuleRequested /\ zig'.zigModulePromise = "promise"

\* C23 amended: the counter is written only in a step in which a handleCompile call
\* begins, and by a global listener that recovers from a stack overflow, which sets it to
\* 0; the cached module is cleared only by the handleCompile that begins with the counter
\* at the threshold, by such a listener and by the rejection of the module promise, and
\* is filled only by the loadZigModule of a compilation in flight.
C23_WritesOfModuleAndCounter == [][C23_CounterWrites /\ C23_ModuleWrites]_vars

\* a global listener cleared the module a compilation in flight had requested
C23_Witness ==
    /\ turn.handler = "zig-error"
    /\ isStackOverflow(turn.error)
    /\ \E c \in zig.inFlight : c.stage = "instantiate"
    /\ zig.zigModulePromise = "null"
    /\ zig.compilationCount = 0

-----------------------------------------------------------------------------
(* C24 *)

\* the node a path leads to in a tree, from the segment at index on
RECURSIVE NodeAtPath(_, _, _)
NodeAtPath(tree, segments, index) ==
    IF index > Len(segments) THEN tree
    ELSE IF tree.kind = "directory" /\ segments[index] \in DOMAIN tree.contents
         THEN NodeAtPath(tree.contents[segments[index]], segments, index + 1)
         ELSE NullNode

\* what one call did to the directory that the first k segments of its path lead to:
\* a directory that was there keeps its other entries, and one that was not there (nothing
\* was, or a file was) holds the next segment of the path only
DirectoryStep(before, after, segments, k) ==
    LET was == NodeAtPath(before, SubSeq(segments, 1, k), 1)
        is == NodeAtPath(after, SubSeq(segments, 1, k), 1)
        next == segments[k + 1]
    IN  /\ is.kind = "directory"
        /\ next \in DOMAIN is.contents
        /\ IF was.kind = "directory"
           THEN /\ DOMAIN is.contents = DOMAIN was.contents \cup {next}
                /\ \A name \in DOMAIN was.contents \ {next} :
                      is.contents[name] = was.contents[name]
           ELSE DOMAIN is.contents = {next}

\* the call of writeFile made in this step
C24_WriteStep ==
    turn'.handler = "write-file" =>
        LET file == fs.files[fs'.written]
            segments == toSegments(normalizeEntryPath(file.path))
            before == TreeAt(fs.heap, 1)
            after == TreeAt(fs'.heap, 1)
        IN  /\ Len(segments) > 0
            /\ \A k \in 0..(Len(segments) - 1) : DirectoryStep(before, after, segments, k)
            /\ NodeAtPath(after, segments, 1) = FileNode(encode(file.contents), file.readOnly)

\* every name of every directory leads to one object, a file or a directory, and no
\* object has two names
C24_OneNodePerName ==
    /\ \A addr \in NodesAt(fs.heap, 1) :
          /\ fs.heap[addr].kind \in {"file", "directory"}
          /\ fs.heap[addr].kind = "file" => fs.heap[addr].contents = <<>>
          /\ \A name \in DOMAIN fs.heap[addr].contents :
                fs.heap[addr].contents[name] \in 1..Len(fs.heap)
    /\ \A a, b \in NodesAt(fs.heap, 1) :
          \A m \in DOMAIN fs.heap[a].contents, n \in DOMAIN fs.heap[b].contents :
              fs.heap[a].contents[m] = fs.heap[b].contents[n] => a = b /\ m = n

\* C24: ensureDirectory, walking the directory segments of a path from the root, descends
\* into an existing subdirectory without changing its other entries, replaces an
\* existing file of the same name by a new empty subdirectory, or creates a new empty
\* subdirectory; after any sequence of writeFile calls every name of a directory maps to
\* exactly one node, a file or a directory.
C24_EnsureDirectory ==
    /\ [](fs.job = "write" => C24_OneNodePerName)
    /\ [][C24_WriteStep]_vars

\* the file a/b was replaced by a directory that holds c, beside the file a/c that the
\* directory a kept
C24_Witness ==
    /\ fs.job = "write"
    /\ fs.written = 3
    /\ LET tree == TreeAt(fs.heap, 1)
       IN  /\ NodeAtPath(tree, <<<<"a">>, <<"c">>>>, 1).kind = "file"
           /\ NodeAtPath(tree, <<<<"a">>, <<"b">>>>, 1).kind = "directory"
           /\ NodeAtPath(tree, <<<<"a">>, <<"b">>, <<"c">>>>, 1).kind = "file"
    /\ fs.files[3].path = <<"a", "/", "b", "/", "c">>
    /\ fs.files[2].path = <<"a", "/", "b">>

-----------------------------------------------------------------------------
(* C25 *)

\* C25: between turns, a worker whose busy flag is false has an empty pending list.
C25_IdleMeansNothingPending ==
    /\ ~zig.isCompiling => zig.compilationQueue = <<>>
    /\ ~runner.isRunning => runner.runQueue = <<>>

\* the part of C25 about the run worker
C25_RunWorkerIdleMeansNothingPending == ~runner.isRunning => runner.runQueue = <<>>

-----------------------------------------------------------------------------
(* C26 *)

\* a sequence holds a message of one of the types
HasMessage(box, types) == \E i \in 1..Len(box) : box[i].type \in types

\* the workers that are alive are those of the generation the page has rendered
WorkersOfCurrentGeneration ==
    /\ host.workersAlive
    /\ host.effectGeneration = host.workerGeneration

\* the compile worker has a request on its way to it, pending or in flight, or its answer
\* is on its way to the page
CompileRequestHeld ==
    \/ zigInbox # <<>>
    \/ zig.compilationQueue # <<>>
    \/ zig.inFlight # {}
    \/ HasMessage(zigOutbox, {"compile-success", "compile-error", "error"})

\* the same of the run worker
RunRequestHeld ==
    \/ runnerInbox # <<>>
    \/ runner.runQueue # <<>>
    \/ runner.inFlight # {}
    \/ HasMessage(runnerOutbox, {"run-success", "run-error", "error"})

\* C26: whenever the page's compile state is 'compiling' or its run state is 'running', a
\* live worker of the current generation holds the request, pending or in flight, or the
\* request or its answer is on its way: the page never waits for a terminated worker.
C26_WaitingOnLiveWorker ==
    /\ host.compileState = "compiling" => WorkersOfCurrentGeneration /\ CompileRequestHeld
    /\ host.runState = "running" => WorkersOfCurrentGeneration /\ RunRequestHeld

\* the same, of workers that are alive whatever their generation
C26_WaitingOnSomeWorker ==
    /\ host.compileState = "compiling" => host.workersAlive /\ CompileRequestHeld
    /\ host.runState = "running" => host.workersAlive /\ RunRequestHeld

-----------------------------------------------------------------------------
(* C27 *)

\* the messages of the types in a sequence
CountMessages(box, types) == Cardinality({i \in 1..Len(box) : box[i].type \in types})

\* the compile-then-run chains the workers of this generation have not ended: a chain is
\* a compile request that waits or is compiled, a compile-success on its way to the page,
\* or a run request that waits or is run
OutstandingChains ==
    Len(zigInbox) + Len(zig.compilationQueue) + Cardinality(zig.inFlight)
        + CountMessages(zigOutbox, {"compile-success"})
        + Len(runnerInbox) + Len(runner.runQueue) + Cardinality(runner.inFlight)

\* the page posts a compile request in this step
PostsCompileRequest == turn'.handler = "host-run" /\ Len(zigInbox') > Len(zigInbox)

C27_PostsWhenIdleAndReady ==
    PostsCompileRequest
        => /\ host.compileState # "compiling"
           /\ host.runState # "running"
           /\ host.runtimeAssetsReady

C27_NeverCompilingWhileRunning ==
    ~(host.compileState = "compiling" /\ host.runState = "running")

\* C27: the page posts a compile request only when its compile state is not 'compiling',
\* its run state is not 'running' and the runtime assets are ready; within one worker
\* generation at most one compile-then-run chain is outstanding; and the compile state is
\* never 'compiling' while the run state is 'running'.
C27_OneChainAtATime ==
    /\ [](OutstandingChains <= 1 /\ C27_NeverCompilingWhileRunning)
    /\ [][C27_PostsWhenIdleAndReady]_vars

\* the parts of C27 other than the number of chains
C27_GuardAndStates == []C27_NeverCompilingWhileRunning /\ [][C27_PostsWhenIdleAndReady]_vars

-----------------------------------------------------------------------------
(* C28 *)

\* the three copies of the normalizer give the same path for the input
CopiesAgree(path) ==
    /\ normalizeEntryPath(path) = normalizeWorkerPath(path)
    /\ runnerNormalizeEntryPath(path) = normalizeWorkerPath(path)

\* C28: the path normalizer is idempotent and its three copies (the page's
\* normalizeWorkerPath, the compile worker's and the run worker's normalizeEntryPath)
\* compute the same function, so a path the page has normalized is left unchanged by
\* either worker.
C28_NormalizedOnce ==
    (fs.job = "payload" /\ fs.sent)
        => /\ fs.normalized = normalizeWorkerPath(fs.path)
           /\ CopiesAgree(fs.path)
           /\ CopiesAgree(fs.normalized)
           /\ normalizeWorkerPath(fs.normalized) = fs.normalized
           /\ fs.done => /\ fs.compilerPath = fs.normalized
                         /\ fs.runnerPath = fs.normalized

\* C28 witness: both workers have normalized a path that the page had changed, behind
\* the legacy prefix and with a blank inside.
C28_Witness ==
    /\ fs.job = "payload"
    /\ fs.done
    /\ StartsWith(fs.path, LEGACY_APP_PREFIX \o <<"/">>)
    /\ \E i \in 1..Len(fs.path) : fs.path[i] = " "
    /\ fs.normalized # MAIN_ZIG
    /\ fs.compilerPath = fs.normalized
    /\ fs.runnerPath = fs.normalized

-----------------------------------------------------------------------------
(* C29 *)

\* the input begins with the legacy prefix, and its first segment is longer than 'app'
FirstSegmentBeginsWithApp(path) ==
    LET trimmed == ReplaceBackslashes(Trim(path))
    IN  /\ StartsWith(trimmed, LEGACY_APP_PREFIX)
        /\ Trim(SplitSlash(trimmed)[2]) # <<"a", "p", "p">>

\* C29: normalizeEntryPath strips the legacy prefix '/app' only when it is a complete
\* leading path segment: for an input whose first segment merely begins with 'app',
\* the non-empty segments of the input other than '.' and '..' are the segments of the
\* output, unchanged and in order.
C29_WholeSegmentOnly ==
    (fs.job = "normalize" /\ fs.done /\ FirstSegmentBeginsWithApp(fs.path))
        => KeepSegments(SplitSlash(ReplaceBackslashes(Trim(fs.path))),
                        {<<".">>, <<".", ".">>})
               = SplitSlash(fs.normalized)

-----------------------------------------------------------------------------
(* C30 *)

\* the calls of warmZigAssets that have not settled
PendingCalls ==
    {i \in 1..Len(assets.registry.calls) : assets.registry.calls[i].state = "pending"}

\* the position of the asset in the order of the warm sequence
OrderOf(key) == CHOOSE i \in 1..Len(WarmOrder) : WarmOrder[i] = key

\* at most one warm sequence runs, the slot holds it, and every call that has not
\* settled awaits it
C30_OneSharedSequence ==
    LET r == assets.registry
    IN  /\ Len(r.running) <= 1
        /\ \A i \in 1..Len(r.running) : r.warmPromise = r.running[i].id
        /\ \A i \in PendingCalls : /\ r.running # <<>>
                                   /\ r.calls[i].awaits = r.running[1].id

\* the sequence warms one asset at a time, after the assets before it are ready
C30_InOrder ==
    LET r == assets.registry
    IN  /\ \A i \in 1..Len(r.running) :
               /\ r.snapshot[r.running[i].key] = "warming"
               /\ \A k \in 1..(OrderOf(r.running[i].key) - 1) :
                      r.snapshot[WarmOrder[k]] = "ready"
        /\ \A k \in 1..Len(WarmOrder) :
               r.snapshot[WarmOrder[k]] = "warming"
                   => \E i \in 1..Len(r.running) : r.running[i].key = WarmOrder[k]

\* a failure ends the sequence: the slot is emptied, the calls that awaited it are
\* rejected and the assets after the failed one are not taken up
C30_FailureAborts ==
    \A k \in 1..Len(WarmOrder) :
        (assets.registry.snapshot[WarmOrder[k]] # "error"
             /\ assets'.registry.snapshot[WarmOrder[k]] = "error")
            => /\ assets'.registry.running = <<>>
               /\ assets'.registry.warmPromise = 0
               /\ assets'.registry.snapshot.error = WarmOrder[k]
               /\ \A i \in PendingCalls : assets'.registry.calls[i].state = "rejected"
               /\ \A j \in (k + 1)..Len(WarmOrder) :
                      assets'.registry.snapshot[WarmOrder[j]]
                          = assets.registry.snapshot[WarmOrder[j]]

\* an asset that is ready stays ready
C30_ReadyStays ==
    \A k \in 1..Len(WarmOrder) :
        assets.registry.snapshot[WarmOrder[k]] = "ready"
            => assets'.registry.snapshot[WarmOrder[k]] = "ready"

\* one sequence at a time, shared, in order, aborted by a failure, and ready for good
C30_SequencesAndStatuses ==
    /\ [](C30_OneSharedSequence /\ C30_InOrder)
    /\ [][C30_FailureAborts /\ C30_ReadyStays]_vars

\* C30: in the asset warm-up registry at most one warm sequence runs at a time and
\* concurrent warmZigAssets callers share it, assets are warmed in the order zig, zls,
\* stdlib and a failure aborts the sequence, an asset that is ready stays ready, and
\* once a warmZigAssets call has settled its listener is no longer registered: every
\* registered listener is that of a call that has not settled.
C30_SettledListenerRemoved ==
    /\ C30_OneSharedSequence
    /\ C30_InOrder
    /\ \A l \in assets.registry.listeners :
           \E i \in PendingCalls : assets.registry.calls[i].listener = l

====
